---- MODULE Spec2Model ----
(***************************************************************************)
(* Carapace dashboard: the action event store (LogStore over logs.db) and  *)
(* the HTTP read endpoints of the dashboard API server.                    *)
(*                                                                         *)
(* The writer side is the LogStore class; every LogStore instance is one   *)
(* connection to the same SQLite file.  The reader side is the express     *)
(* server, which opens the file read-only per request.  Writers and the    *)
(* server are separate threads of control, so a handler that runs several  *)
(* SQL statements is modelled one statement per step.                      *)
(*                                                                         *)
(* The browser side is the React pages of the dashboard: the config        *)
(* passthrough (useConfig), the Activity Log, the Performance page, the    *)
(* Security Rules editor and the Goals editor.  A request of a page is     *)
(* sent in one step and answered in another.                               *)
(***************************************************************************)
EXTENDS Integers, Sequences, FiniteSets, TLC

\* ------------------------------------------------------------------------
\* Bounds of the model
\* ------------------------------------------------------------------------
\* the wall clock reads at most this many ticks past its earliest value
MaxTicks == 1
\* at most this many rows are ever inserted
MaxAppends == 2

\* the times of day the clock distinguishes within one calendar day
TimesOfDay == {0, 1}
TicksPerDay == Cardinality(TimesOfDay)
\* the instants that callers supply as event timestamps
EntryTicks == {1, 2}

\* the LogStore instances (connections to the same file)
Stores == {"s1", "s2"}

\* the earliest and the latest reading of the wall clock; the calls of one
\* behaviour read the same instant, any in this range
NowStart == TicksPerDay + 1
MaxNow == NowStart + MaxTicks

\* ------------------------------------------------------------------------
\* JavaScript and SQLite values
\* ------------------------------------------------------------------------
JsUndefined == [k |-> "undefined", v |-> 0]
JsNaN == [k |-> "NaN", v |-> 0]
JsNum(n) == [k |-> "number", v |-> n]

\* Date.prototype.toISOString: "YYYY-MM-DDTHH:mm:ss.sssZ", a fixed-width
\* string, modelled as <<date part, time-of-day part>>.
ToISOString(t) == <<t \div TicksPerDay, t % TicksPerDay>>

\* the instant a fixed-width ISO string denotes (new Date(str))
ParseDate(str) == str[1] * TicksPerDay + str[2]

\* SQLite's BINARY collation on TEXT: lexicographic comparison
TextLt(a, b) == \/ a[1] < b[1]
                \/ a[1] = b[1] /\ a[2] < b[2]

TextGe(a, b) == ~TextLt(a, b)

\* cutoff.setDate(cutoff.getDate() - retentionDays)
SetDateBack(t, days) == t - days * TicksPerDay

\* datetime('now'): "YYYY-MM-DD HH:MM:SS"
SqlDatetimeNow(t) == <<t \div TicksPerDay, t % TicksPerDay>>

\* ASCII lower-casing, as LIKE folds case
Lower(c) == IF c = "A" THEN "a" ELSE IF c = "B" THEN "b" ELSE c

\* SQLite's LIKE without an ESCAPE clause: % matches any run of characters,
\* _ matches one character, everything else matches itself ignoring case.
RECURSIVE Like(_, _)
Like(str, pat) ==
  IF pat = <<>> THEN str = <<>>
  ELSE IF Head(pat) = "%"
       THEN \/ Like(str, Tail(pat))
            \/ str # <<>> /\ Like(Tail(str), pat)
  ELSE IF str = <<>> THEN FALSE
  ELSE IF Head(pat) = "_" THEN Like(Tail(str), Tail(pat))
  ELSE Lower(Head(pat)) = Lower(Head(str)) /\ Like(Tail(str), Tail(pat))

\* ------------------------------------------------------------------------
\* LogEntry values handed to logAction
\* ------------------------------------------------------------------------
EntryTimestamps == {ToISOString(t) : t \in EntryTicks}

Entries ==
  { [timestamp |-> ToISOString(1), action_type |-> <<"a">>,
     target |-> <<"b">>, amount |-> 0, description |-> <<"A", "b">>,
     verdict |-> "pass", reason |-> <<>>, key_was_valid |-> TRUE,
     tier |-> JsNum(1)],
    [timestamp |-> ToISOString(2), action_type |-> <<"b">>,
     target |-> <<"b", "_">>, amount |-> 5, description |-> <<"b">>,
     verdict |-> "block", reason |-> <<"a">>, key_was_valid |-> FALSE,
     tier |-> JsNum(1)],
    [timestamp |-> ToISOString(2), action_type |-> <<"b">>,
     target |-> <<"a">>, amount |-> 5, description |-> <<"%">>,
     verdict |-> "pass", reason |-> <<>>, key_was_valid |-> FALSE,
     tier |-> JsUndefined],
    [timestamp |-> ToISOString(1), action_type |-> <<"A">>,
     target |-> <<"b">>, amount |-> 0, description |-> <<"b">>,
     verdict |-> "block", reason |-> <<>>, key_was_valid |-> TRUE,
     tier |-> JsNum(0)] }

RetentionDays == {0, 1}

\* ------------------------------------------------------------------------
\* State
\* ------------------------------------------------------------------------
VARIABLES
  fileExists,    \* ~/.carapace/logs.db exists
  tableExists,   \* the actions table exists in the file
  actions,       \* the rows of the actions table
  seq,           \* sqlite_sequence entry of actions (AUTOINCREMENT)
  now,           \* the wall clock
  db,            \* db[s]: LogStore s holds an open connection (this.db)
  sessionStart,  \* sessionStart[s]: the session id of LogStore s
  pc,            \* pc[s]: position of LogStore s inside a running method
  cutoffStr,     \* cutoffStr[s]: the cutoff computed by a running cleanup
  ret,           \* the outcome of the latest LogStore call
  assigned,      \* history: every id ever returned by logAction
  cutoffAt,      \* history: cutoffAt[s], the instant now - N days of the
                 \* running cleanup, and the ids assigned before it
  hpc,           \* position of the server inside GET /api/logs
  query,         \* req.query of the request being served
  countRow,      \* countRow.total of the request being served
  res,           \* the response sent for the latest request
  quiet,         \* history: no write since the latest request began
  plan,          \* the query plan SQLite prepares for the page statement
  pages,         \* history: the pages a client has collected in a series
  stats,         \* GET /api/logs/stats: position, counters, response
  reviewsExists, \* the reviews table exists in the file
  reviews,       \* the rows of the reviews table, in rowid order
  revRes,        \* the response of the latest GET /api/reviews
  trends,        \* the response of the latest GET /api/reviews/trends
  cfg,           \* config.json, insights.md and the requests that read
                 \* and write them, from the browser to the disk
  act,           \* the state of the Activity Log page
  perf,          \* the state of the Performance page
  rules,         \* the state of the Security Rules editor
  goals          \* the state of the Goals editor

vars == <<fileExists, tableExists, actions, seq, now, db, sessionStart,
          pc, cutoffStr, ret, assigned, cutoffAt, hpc, query, countRow, res,
          quiet, plan, pages, stats, reviewsExists, reviews, revRes, trends,
          cfg, act, perf, rules, goals>>

fileVars == <<fileExists, tableExists, actions, seq>>
storeVars == <<db, sessionStart, pc, cutoffStr, ret, assigned, cutoffAt>>
serverVars == <<hpc, query, countRow, res>>
reviewVars == <<reviewsExists, reviews, revRes, trends>>
readerVars == <<plan, pages, stats, reviewVars>>
uiVars == <<cfg, act, perf, rules, goals>>
backendVars == <<fileVars, now, storeVars, serverVars, quiet, readerVars>>

NoCutoff == <<0, 0>>
NoCutoffAt == [instant |-> 0, seq |-> 0]

\* the outcome of a LogStore call: the error thrown, the id or the number of
\* changes or the rows returned; as history, the entry or the cutoff instant
\* the call was about and the number of rows before it
Ret(op, s, error, id, changes, rows, cut, before) ==
  [op |-> op, store |-> s, error |-> error, id |-> id, changes |-> changes,
   rows |-> rows, cut |-> cut, before |-> before]

NoRet == Ret("none", "none", "", 0, 0, <<>>, 0, 0)

\* ------------------------------------------------------------------------
\* The actions table
\* ------------------------------------------------------------------------
Max(S) == CHOOSE x \in S : \A y \in S : y <= x

MaxRowid(rows) == IF rows = {} THEN 0 ELSE Max({r.id : r \in rows})

\* id INTEGER PRIMARY KEY without AUTOINCREMENT: one more than the largest
\* rowid currently in the table
NextRowidNoAutoincrement(rows, sq) == MaxRowid(rows) + 1

\* id INTEGER PRIMARY KEY AUTOINCREMENT: one more than the largest rowid the
\* table has ever held, which SQLite keeps in sqlite_sequence
NextRowid(rows, sq) ==
  (IF sq > MaxRowid(rows) THEN sq ELSE MaxRowid(rows)) + 1

\* the row inserted when target and description are bound in the wrong order
InsertedRowSwapped(id, e, session, t) ==
  [id |-> id,
   timestamp |-> e.timestamp,
   session_id |-> session,
   action_type |-> e.action_type,
   target |-> e.description,
   amount |-> e.amount,
   description |-> e.target,
   verdict |-> e.verdict,
   reason |-> e.reason,
   key_was_valid |-> IF e.key_was_valid THEN 1 ELSE 0,
   tier |-> IF e.tier = JsUndefined THEN 0 ELSE e.tier.v,
   created_at |-> SqlDatetimeNow(t)]

\* the row that stmt.run(...) of logAction inserts
InsertedRow(id, e, session, t) ==
  [id |-> id,
   timestamp |-> e.timestamp,
   session_id |-> session,
   action_type |-> e.action_type,
   target |-> e.target,
   amount |-> e.amount,
   description |-> e.description,
   verdict |-> e.verdict,
   reason |-> e.reason,
   key_was_valid |-> IF e.key_was_valid THEN 1 ELSE 0,
   tier |-> IF e.tier = JsUndefined THEN 0 ELSE e.tier.v,
   created_at |-> SqlDatetimeNow(t)]

\* INSERT OR REPLACE on a table keyed by session_id
InsertReplacing(rows, row) ==
  {r \in rows : r.session_id # row.session_id} \cup {row}

\* INSERT INTO actions (...) VALUES (...)
Insert(rows, row) == rows \cup {row}

\* DROP TABLE IF EXISTS actions; CREATE TABLE actions
CreateTableDropping(exists, rows) == {}

\* CREATE TABLE IF NOT EXISTS actions: the rows of the table afterwards
CreateTableIfNotExists(exists, rows) == IF exists THEN rows ELSE {}

\* DELETE FROM actions WHERE timestamp <= ?
DeletedByCleanupInclusive(rows, cutoff) ==
  {r \in rows : ~TextLt(cutoff, r.timestamp)}

\* DELETE FROM actions WHERE timestamp < ?
DeletedByCleanup(rows, cutoff) == {r \in rows : TextLt(r.timestamp, cutoff)}

\* a logAction without the guard
NeverNotInitialized(s) == FALSE

\* if (!this.db)
NotInitialized(s) == ~db[s]

\* ------------------------------------------------------------------------
\* Ordering and paging of a SELECT
\* ------------------------------------------------------------------------
\* How SQLite orders rows with equal timestamps under ORDER BY timestamp
\* DESC is left open by SQL: a backward scan of idx_actions_timestamp
\* yields them by descending rowid, a sort of a forward table or index scan
\* by ascending rowid.
Plans == {"index", "sorter"}

Before(pl, a, b) ==
  \/ TextLt(b.timestamp, a.timestamp)
  \/ /\ a.timestamp = b.timestamp
     /\ IF pl = "index" THEN a.id > b.id ELSE a.id < b.id

\* ORDER BY timestamp DESC: the rows as a sequence
RECURSIVE OrderByTimestampDesc(_, _)
OrderByTimestampDesc(pl, rows) ==
  IF rows = {} THEN <<>>
  ELSE LET first == CHOOSE a \in rows :
                      \A b \in rows \ {a} : Before(pl, a, b)
       IN <<first>> \o OrderByTimestampDesc(pl, rows \ {first})

\* a page that also returns the row after its last one
LimitOffsetInclusive(sq, lim, off) ==
  LET o == IF off < 0 THEN 0 ELSE off
      n == Len(sq)
      last == IF lim < 0 \/ o + lim + 1 > n THEN n ELSE o + lim + 1
  IN IF o >= n THEN <<>> ELSE SubSeq(sq, o + 1, last)

\* LIMIT lim OFFSET off: a negative LIMIT is no limit, a negative OFFSET is 0
LimitOffset(sq, lim, off) ==
  LET o == IF off < 0 THEN 0 ELSE off
      n == Len(sq)
      last == IF lim < 0 \/ o + lim > n THEN n ELSE o + lim
  IN IF o >= n THEN <<>> ELSE SubSeq(sq, o + 1, last)

\* ------------------------------------------------------------------------
\* LogStore
\* ------------------------------------------------------------------------
\* getRecentActions(limit: number = 50)
DefaultRecentLimit == 50

RecentLimits == {1, DefaultRecentLimit}

\* initialize(), up to this.db = new Database(this.dbPath): the directory
\* and the file exist afterwards, the connection is open
InitializeOpen(s) ==
  /\ pc[s] = "idle"
  /\ pc' = [pc EXCEPT ![s] = "schema"]
  /\ db' = [db EXCEPT ![s] = TRUE]
  /\ fileExists' = TRUE
  /\ UNCHANGED <<tableExists, actions, seq, now, sessionStart, cutoffStr,
                 ret, assigned, cutoffAt, quiet>>
  /\ UNCHANGED serverVars
  /\ UNCHANGED readerVars
  /\ UNCHANGED uiVars

\* initialize(), the CREATE TABLE and CREATE INDEX statements
InitializeSchema(s) ==
  /\ pc[s] = "schema"
  /\ pc' = [pc EXCEPT ![s] = "idle"]
  /\ tableExists' = TRUE
  /\ actions' = CreateTableIfNotExists(tableExists, actions)
  /\ ret' = Ret("initialize", s, "", 0, 0, <<>>, 0, Cardinality(actions))
  /\ quiet' = (quiet /\ actions' = actions)
  /\ UNCHANGED <<fileExists, seq, now, db, sessionStart, cutoffStr, assigned,
                 cutoffAt>>
  /\ UNCHANGED serverVars
  /\ UNCHANGED readerVars
  /\ UNCHANGED uiVars

\* initialize() as one step: no other LogStore method reads the file
\* between the opening of the connection and the creation of the table
Initialize(s) ==
  /\ pc[s] = "idle"
  /\ db' = [db EXCEPT ![s] = TRUE]
  /\ fileExists' = TRUE
  /\ tableExists' = TRUE
  /\ actions' = CreateTableIfNotExists(tableExists, actions)
  /\ ret' = Ret("initialize", s, "", 0, 0, <<>>, 0, Cardinality(actions))
  /\ quiet' = (quiet /\ actions' = actions)
  /\ UNCHANGED <<seq, now, sessionStart, pc, cutoffStr, assigned, cutoffAt>>
  /\ UNCHANGED serverVars
  /\ UNCHANGED readerVars
  /\ UNCHANGED uiVars

\* logAction(entry)
LogAction(s, e) ==
  /\ pc[s] = "idle"
  /\ IF NotInitialized(s)
     THEN /\ ret' = Ret("logAction", s, "LogStore not initialized", 0, 0,
                        <<e>>, 0, Cardinality(actions))
          /\ UNCHANGED <<actions, seq, assigned, quiet>>
     ELSE /\ seq < MaxAppends
          /\ tableExists
          /\ LET id == NextRowid(actions, seq)
             IN /\ actions' =
                     Insert(actions, InsertedRow(id, e, sessionStart[s], now))
                /\ seq' = id
                /\ ret' = Ret("logAction", s, "", id, 0, <<e>>, 0,
                              Cardinality(actions))
                /\ assigned' = assigned \cup {id}
          /\ quiet' = FALSE
  /\ UNCHANGED <<fileExists, tableExists, now, db, sessionStart, pc,
                 cutoffStr, cutoffAt>>
  /\ UNCHANGED serverVars
  /\ UNCHANGED readerVars
  /\ UNCHANGED uiVars

\* cleanupOldLogs(retentionDays), up to the computation of cutoffStr
CleanupCutoff(s, days) ==
  /\ pc[s] = "idle"
  /\ IF NotInitialized(s)
     THEN /\ ret' = Ret("cleanupOldLogs", s, "", 0, 0, <<>>,
                        now - days * TicksPerDay, Cardinality(actions))
          /\ UNCHANGED <<pc, cutoffStr, cutoffAt>>
     ELSE /\ cutoffStr' =
               [cutoffStr EXCEPT ![s] = ToISOString(SetDateBack(now, days))]
          /\ cutoffAt' =
               [cutoffAt EXCEPT ![s] = [instant |-> now - days * TicksPerDay,
                                        seq |-> seq]]
          /\ pc' = [pc EXCEPT ![s] = "delete"]
          /\ ret' = ret
  /\ UNCHANGED <<now, db, sessionStart, assigned, quiet>>
  /\ UNCHANGED fileVars
  /\ UNCHANGED serverVars
  /\ UNCHANGED readerVars
  /\ UNCHANGED uiVars

\* cleanupOldLogs(retentionDays), the DELETE statement and the return
CleanupDelete(s) ==
  /\ pc[s] = "delete"
  /\ LET gone == DeletedByCleanup(actions, cutoffStr[s])
     IN /\ actions' = actions \ gone
        /\ ret' = Ret("cleanupOldLogs", s, "", 0, Cardinality(gone), <<>>,
                      cutoffAt[s].instant, Cardinality(actions))
        /\ quiet' = (quiet /\ gone = {})
  /\ pc' = [pc EXCEPT ![s] = "idle"]
  /\ cutoffStr' = [cutoffStr EXCEPT ![s] = NoCutoff]
  /\ cutoffAt' = [cutoffAt EXCEPT ![s] = NoCutoffAt]
  /\ UNCHANGED <<fileExists, tableExists, seq, now, db, sessionStart,
                 assigned>>
  /\ UNCHANGED serverVars
  /\ UNCHANGED readerVars
  /\ UNCHANGED uiVars

\* cleanupOldLogs(retentionDays) of an initialized store as one step, as it
\* runs when no other writer is connected
CleanupOldLogs(s, days) ==
  /\ pc[s] = "idle"
  /\ ~NotInitialized(s)
  /\ LET cutoff == ToISOString(SetDateBack(now, days))
         gone == DeletedByCleanup(actions, cutoff)
     IN /\ actions' = actions \ gone
        /\ ret' = Ret("cleanupOldLogs", s, "", 0, Cardinality(gone), <<>>,
                      now - days * TicksPerDay, Cardinality(actions))
        /\ quiet' = (quiet /\ gone = {})
  /\ UNCHANGED <<fileExists, tableExists, seq, now, db, sessionStart, pc,
                 cutoffStr, assigned, cutoffAt>>
  /\ UNCHANGED serverVars
  /\ UNCHANGED readerVars
  /\ UNCHANGED uiVars

\* getRecentActions(limit)
GetRecentActions(s, limit) ==
  /\ pc[s] = "idle"
  /\ \E pl \in Plans :
       ret' = Ret("getRecentActions", s, "", 0, 0,
                  IF NotInitialized(s) THEN <<>>
                  ELSE LimitOffset(OrderByTimestampDesc(pl, actions),
                                   limit, 0),
                  0, Cardinality(actions))
  /\ UNCHANGED <<now, db, sessionStart, pc, cutoffStr, assigned, cutoffAt,
                 quiet>>
  /\ UNCHANGED fileVars
  /\ UNCHANGED serverVars
  /\ UNCHANGED readerVars
  /\ UNCHANGED uiVars

\* getActionsByTimeRange(start, end)
GetActionsByTimeRange(s, start, end) ==
  /\ pc[s] = "idle"
  /\ \E pl \in Plans :
       ret' = Ret("getActionsByTimeRange", s, "", 0, 0,
                  IF NotInitialized(s) THEN <<>>
                  ELSE OrderByTimestampDesc(pl,
                         {r \in actions : /\ TextGe(r.timestamp, start)
                                          /\ ~TextLt(end, r.timestamp)}),
                  0, Cardinality(actions))
  /\ UNCHANGED <<now, db, sessionStart, pc, cutoffStr, assigned, cutoffAt,
                 quiet>>
  /\ UNCHANGED fileVars
  /\ UNCHANGED serverVars
  /\ UNCHANGED readerVars
  /\ UNCHANGED uiVars

\* the counters of getSessionStats()
SessionStats(s, rows) ==
  LET mine == {r \in rows : r.session_id = sessionStart[s]}
      n(S) == Cardinality(S)
  IN [totalActions |-> n(mine),
      verifiedActions |-> n({r \in mine : r.key_was_valid = 1}),
      blockedActions |-> n({r \in mine : r.verdict = "block"}),
      unverifiedTier1 |->
        n({r \in mine : r.tier = 1 /\ r.key_was_valid = 0}),
      tier1 |-> n({r \in mine : r.tier = 1}),
      tier2 |-> n({r \in mine : r.tier = 2}),
      tier3 |-> n({r \in mine : r.tier = 3}),
      sessionStart |-> sessionStart[s]]

\* getSessionStats()
GetSessionStats(s) ==
  /\ pc[s] = "idle"
  /\ ret' = Ret("getSessionStats", s, "", 0, 0,
                <<SessionStats(s, IF NotInitialized(s) THEN {} ELSE actions)>>,
                0, Cardinality(actions))
  /\ UNCHANGED <<now, db, sessionStart, pc, cutoffStr, assigned, cutoffAt,
                 quiet>>
  /\ UNCHANGED fileVars
  /\ UNCHANGED serverVars
  /\ UNCHANGED readerVars
  /\ UNCHANGED uiVars

\* ------------------------------------------------------------------------
\* Initial state: no file yet, every LogStore constructed but not
\* initialized, the server idle, the clock at any of its values
\* ------------------------------------------------------------------------
RawAbsent == [k |-> "absent", v |-> 0]
RawInt(n) == [k |-> "int", v |-> n]
RawText == [k |-> "text", v |-> 0]

NoQuery == [limit |-> RawAbsent, offset |-> RawAbsent, verdict |-> "",
            tier |-> RawAbsent, search |-> <<>>, since |-> <<>>]
NoRes == [status |-> 0, actions |-> <<>>, total |-> 0]

\* new LogStore(): this.sessionStart = new Date().toISOString()
ConstructedAt == [s \in Stores |-> IF s = "s1" THEN 1 ELSE 2]

StoreInit ==
  /\ fileExists = FALSE
  /\ tableExists = FALSE
  /\ actions = {}
  /\ seq = 0
  /\ now \in NowStart..MaxNow
  /\ db = [s \in Stores |-> FALSE]
  /\ sessionStart = [s \in Stores |-> ToISOString(ConstructedAt[s])]
  /\ pc = [s \in Stores |-> "idle"]
  /\ cutoffStr = [s \in Stores |-> NoCutoff]
  /\ ret = NoRet
  /\ assigned = {}
  /\ cutoffAt = [s \in Stores |-> NoCutoffAt]
  /\ hpc = "idle"
  /\ query = NoQuery
  /\ countRow = 0
  /\ res = NoRes
  /\ quiet = TRUE

\* no series of pages, no stats request, no reviews table
NoPages == [rows |-> <<>>, table |-> {}, clean |-> TRUE]
NoStats == [pc |-> "idle", status |-> 0, totalActions |-> 0,
            sessionActions |-> 0, verifiedCount |-> 0, unverifiedCount |-> 0,
            blockedCount |-> 0, unverifiedTier1Count |-> 0,
            t1 |-> 0, t2 |-> 0, t3 |-> 0, dailySpend |-> 0]
NoRevRes == [pc |-> "idle", status |-> 0, reviews |-> <<>>, total |-> 0,
             limit |-> 0, offset |-> 0]
JsNull == [k |-> "null", v |-> 0]
NoTrends == [status |-> 0, days |-> RawAbsent, daily_scores |-> <<>>,
             averages |-> [overall |-> 0, alignment |-> 0, security |-> 0],
             trend_direction |-> "stable", best_day |-> JsNull,
             worst_day |-> JsNull]

ReaderInit ==
  /\ pages = NoPages
  /\ stats = NoStats
  /\ reviewsExists = FALSE
  /\ reviews = <<>>
  /\ revRes = NoRevRes
  /\ trends = NoTrends

\* the three passthrough requests of the browser: PUT /api/config,
\* GET /api/config and GET /api/insights
ConfigOps == {"save", "load", "insights"}
\* a request: its position (idle, sent, answered, settled), the body sent,
\* the status of the response, what the caller of the api function saw
\* (resolved or rejected) and the number of times the request was sent
NoReq == [pc |-> "idle", body |-> "none", status |-> 0, seen |-> "none",
          tries |-> 0]
\* no config file, no insights file, useConfig before its first load
NoCfg == [disk |-> "none", insights |-> FALSE,
          req |-> [op \in ConfigOps |-> NoReq],
          config |-> "null", exists |-> "true", loading |-> TRUE,
          hasChanges |-> FALSE, showToast |-> FALSE]

\* ActivityLog before its first render: page 1, no filter, nothing shown
NoShown == [page |-> 0, verdict |-> "none"]
NoAct == [mounted |-> FALSE, page |-> 1, verdictFilter |-> "all",
          flight |-> {}, shown |-> NoShown, total |-> 0, loading |-> TRUE]

\* Performance before its first render
NoPerf == [mounted |-> FALSE, page |-> 1, flight |-> {}, shown |-> 0,
           total |-> 0, loading |-> TRUE]

\* the spending limits of a loaded draft, the three input fields showing
\* them, nothing saved yet
Shown(n) == [k |-> "number", v |-> n]
RulesOf(limits) ==
  [draft |-> limits,
   display |-> [perAction |-> Shown(limits.perAction),
                daily |-> Shown(limits.daily),
                warnAbove |-> Shown(limits.warnAbove)],
   hasChanges |-> FALSE, showToast |-> FALSE, saved |-> JsNull]
DefaultLimits == [perAction |-> 1, daily |-> 2, warnAbove |-> 0]

\* the priorities of a loaded draft, no drag in progress, nothing saved
NoGoals == [priorities |-> <<[rank |-> 1, text |-> "a"],
                             [rank |-> 2, text |-> "b"]>>,
            dragIndex |-> JsNull, pc |-> "idle", saved |-> JsNull,
            hasChanges |-> FALSE, showToast |-> FALSE]

PageInit ==
  /\ cfg = NoCfg
  /\ act = NoAct
  /\ perf = NoPerf
  /\ goals = NoGoals

\* the LogStore API and a single request leave the plan of a statement
\* open at each statement; the variable is read by a series of pages
Init ==
  /\ StoreInit /\ ReaderInit /\ plan = "index"
  /\ PageInit /\ rules = RulesOf(DefaultLimits)

\* The LogStore API used by two connections to the same file
Next ==
  \/ \E s \in Stores : Initialize(s)
  \/ \E s \in Stores, e \in Entries : LogAction(s, e)
  \/ \E s \in Stores, days \in RetentionDays : CleanupCutoff(s, days)
  \/ \E s \in Stores : CleanupDelete(s)
  \/ \E s \in Stores, limit \in RecentLimits : GetRecentActions(s, limit)
  \/ \E s \in Stores, start \in EntryTimestamps, end \in EntryTimestamps :
       GetActionsByTimeRange(s, start, end)
  \/ \E s \in Stores : GetSessionStats(s)

Spec == Init /\ [][Next]_vars

\* initialize() statement by statement, with appends, on two connections
InitNext ==
  \/ \E s \in Stores : InitializeOpen(s)
  \/ \E s \in Stores : InitializeSchema(s)
  \/ \E s \in Stores, e \in Entries : LogAction(s, e)

InitSpec == Init /\ [][InitNext]_vars

\* ------------------------------------------------------------------------
\* GET /api/logs
\* ------------------------------------------------------------------------
\* parseInt(req.query.limit) || 50
DefaultLogsLimit == 50

\* parseInt of a query-string value
ParseInt(raw) == IF raw.k = "int" THEN JsNum(raw.v) ELSE JsNaN

\* x || d for a number x
OrDefault(x, d) == IF x.k = "number" /\ x.v # 0 THEN x.v ELSE d

\* req.query.tier ? parseInt(req.query.tier) : undefined
ParseTier(raw) == IF raw.k = "absent" THEN JsUndefined ELSE ParseInt(raw)

\* the conditions pushed for a request, each with its bound parameter
Conditions(q) ==
  (IF q.verdict # "" /\ q.verdict # "all"
   THEN {[col |-> "verdict", text |-> q.verdict, num |-> JsUndefined,
          str |-> <<>>]}
   ELSE {})
  \cup
  (IF ParseTier(q.tier) # JsUndefined
   THEN {[col |-> "tier", text |-> "", num |-> ParseTier(q.tier),
          str |-> <<>>]}
   ELSE {})
  \cup
  (IF q.search # <<>>
   THEN {[col |-> "search", text |-> "", num |-> JsUndefined,
          str |-> <<"%">> \o q.search \o <<"%">>]}
   ELSE {})
  \cup
  (IF q.since # <<>>
   THEN {[col |-> "since", text |-> "", num |-> JsUndefined,
          str |-> q.since]}
   ELSE {})

\* one condition evaluated on one row; a NaN parameter is bound as NULL and
\* equals nothing
Holds(c, r) ==
  CASE c.col = "verdict" -> r.verdict = c.text
    [] c.col = "tier" -> c.num.k = "number" /\ r.tier = c.num.v
    [] c.col = "search" -> \/ Like(r.action_type, c.str)
                            \/ Like(r.target, c.str)
                            \/ Like(r.description, c.str)
    [] c.col = "since" -> TextGe(r.timestamp, c.str)

\* conditions.join(' OR ')
WhereAny(conds, r) == conds = {} \/ \E c \in conds : Holds(c, r)

\* WHERE conditions.join(' AND '), or no WHERE clause without conditions
Where(conds, r) == \A c \in conds : Holds(c, r)

Selected(rows, q) == {r \in rows : Where(Conditions(q), r)}

Limit(q) == OrDefault(ParseInt(q.limit), DefaultLogsLimit)
Offset(q) == OrDefault(ParseInt(q.offset), 0)

\* the requests sent: every combination of filters with default paging, and
\* every paging with at most a verdict filter
Queries ==
  { q \in
  [limit : {RawAbsent, RawInt(1), RawInt(2)},
   offset : {RawAbsent, RawInt(1)},
   verdict : {"", "all", "block"},
   tier : {RawAbsent, RawInt(1)},
   search : {<<>>, <<"a">>},
   since : {<<>>, ToISOString(2)}] :
    (q.limit # RawAbsent \/ q.offset # RawAbsent)
      => (q.tier = RawAbsent /\ q.search = <<>> /\ q.since = <<>>) }

\* the handler up to openDb() and the parsing of req.query; without the
\* file it answers at once
LogsBegin(q) ==
  /\ hpc \in {"idle", "done"}
  /\ query' = q
  /\ countRow' = 0
  /\ quiet' = TRUE
  /\ IF ~fileExists
     THEN /\ res' = [status |-> 200, actions |-> <<>>, total |-> 0]
          /\ hpc' = "done"
     ELSE /\ res' = NoRes
          /\ hpc' = "count"
  /\ UNCHANGED now
  /\ UNCHANGED fileVars
  /\ UNCHANGED storeVars
  /\ UNCHANGED readerVars
  /\ UNCHANGED uiVars

\* SELECT COUNT(*) as total FROM actions WHERE ...; a missing table throws
\* and the catch block answers 500
LogsCount ==
  /\ hpc = "count"
  /\ IF ~tableExists
     THEN /\ res' = [status |-> 500, actions |-> <<>>, total |-> 0]
          /\ hpc' = "done"
          /\ UNCHANGED countRow
     ELSE /\ countRow' = Cardinality(Selected(actions, query))
          /\ hpc' = "select"
          /\ UNCHANGED res
  /\ UNCHANGED <<now, query, quiet>>
  /\ UNCHANGED fileVars
  /\ UNCHANGED storeVars
  /\ UNCHANGED readerVars
  /\ UNCHANGED uiVars

\* SELECT * FROM actions WHERE ... ORDER BY timestamp DESC LIMIT ? OFFSET ?
\* and the response
LogsSelectWith(pl) ==
  /\ hpc = "select"
  /\ res' = [status |-> 200,
             actions |-> LimitOffset(
                           OrderByTimestampDesc(pl, Selected(actions, query)),
                           Limit(query), Offset(query)),
             total |-> countRow]
  /\ hpc' = "done"
  /\ UNCHANGED <<now, query, countRow, quiet>>
  /\ UNCHANGED fileVars
  /\ UNCHANGED storeVars
  /\ UNCHANGED readerVars
  /\ UNCHANGED uiVars

\* one request on its own: whichever plan SQLite prepares
LogsSelect == \E pl \in Plans : LogsSelectWith(pl)

\* the writer of the dashboard's store
Writer == "s1"

\* One writer and the server's GET /api/logs
LogsNext ==
  \/ InitializeOpen(Writer)
  \/ InitializeSchema(Writer)
  \/ \E e \in Entries : LogAction(Writer, e)
  \/ \E days \in RetentionDays : CleanupOldLogs(Writer, days)
  \/ \E q \in Queries : LogsBegin(q)
  \/ LogsCount
  \/ LogsSelect

\* the server's requests do not read the clock: one clock value, at which
\* a cleanup of one day removes some of the timestamps and keeps the others
LogsInit == Init /\ now = NowStart + 1

LogsSpec == LogsInit /\ [][LogsNext]_vars

\* ------------------------------------------------------------------------
\* Properties of the event store
\* ------------------------------------------------------------------------
Range(sq) == {sq[i] : i \in 1..Len(sq)}

\* a step in which logAction returns an id
AppendReturns == ret' # ret /\ ret'.op = "logAction" /\ ret'.error = ""

\* a step in which the DELETE of a cleanup runs
DeleteRuns == \E s \in Stores : pc[s] = "delete" /\ pc'[s] = "idle"

\* a step in which cleanupOldLogs returns
CleanupReturns ==
  \/ DeleteRuns
  \/ pc' = pc /\ ret' # ret /\ ret'.op = "cleanupOldLogs"

\* what the retention sweep is to do: the rows older than the instant
\* now - N days go, all others stay, and the number removed is returned
SweptExactly ==
  /\ actions' = {r \in actions : ParseDate(r.timestamp) >= ret'.cut}
  /\ ret'.changes = Cardinality(actions \ actions')

\* C2, as stated: every cleanup(N) deletes exactly the events with
\* timestamp < now - N days, keeps an event at the cutoff, and returns the
\* number of rows deleted.
C2_EveryCleanupSweeps == [][CleanupReturns => SweptExactly]_vars

\* C2, amended: cleanup(N) called on an initialized LogStore deletes exactly
\* the events with timestamp < now - N days, keeps an event at the cutoff,
\* and returns the number of rows deleted; called on a LogStore whose
\* initialize() has not run it deletes nothing and returns 0.
C2_InitializedCleanupSweeps ==
  [][CleanupReturns =>
       IF db[ret'.store] THEN SweptExactly
       ELSE actions' = actions /\ ret'.changes = 0]_vars

\* a cleanup has removed a row and kept a row dated exactly at its cutoff
C2_Witness ==
  /\ ret.op = "cleanupOldLogs"
  /\ ret.changes > 0
  /\ ret.before = ret.changes + Cardinality(actions)
  /\ \E r \in actions : ParseDate(r.timestamp) = ret.cut

\* C3: a cleanup never removes a row that was inserted after the cleanup
\* computed its cutoff.
C3_CleanupSparesLaterRows ==
  [][\A s \in Stores :
       (pc[s] = "delete" /\ pc'[s] = "idle")
         => \A r \in actions \ actions' : r.id <= cutoffAt[s].seq]_vars

\* C4: logAction on a LogStore whose initialize() has not run throws the
\* not-initialized error and leaves the table as it was.
C4_AppendBeforeInitializeFails ==
  [][\A s \in Stores :
       (ret' # ret /\ ret'.op = "logAction" /\ ret'.store = s /\ ~db[s])
         => /\ ret'.error = "LogStore not initialized"
            /\ actions' = actions
            /\ seq' = seq]_vars

\* an append has failed on one connection while the table holds rows
C4_Witness ==
  /\ ret.op = "logAction"
  /\ ret.error # ""
  /\ actions # {}

\* a step of the retention cleanup that runs its DELETE
CleanupRuns ==
  \/ DeleteRuns
  \/ pc' = pc /\ hpc' = hpc /\ ret' # ret /\ ret'.op = "cleanupOldLogs"

\* C5: a stored row never changes; logAction adds exactly one row,
\* initialize, the read methods and the steps of the server leave the table
\* alone, and only the DELETE of a cleanup removes rows.
C5_RowsAreImmutable ==
  [][/\ \A r \in actions : r \in actions' \/ CleanupRuns
     /\ hpc' # hpc => actions' = actions
     /\ \A r \in actions, r2 \in actions' : r2.id = r.id => r2 = r
     /\ AppendReturns =>
          /\ actions \subseteq actions'
          /\ Cardinality(actions') = Cardinality(actions) + 1
     /\ ret'.op \notin {"logAction", "cleanupOldLogs"} => actions' = actions
    ]_vars

\* a read method has run on an initialized store holding two rows
C5_Witness ==
  /\ ret.op = "getSessionStats"
  /\ db[ret.store]
  /\ Cardinality(actions) = 2

\* C6: ids are unique, and every id logAction returns is greater than every
\* id returned before, also after rows were deleted.
C6_IdsNeverReused ==
  [][/\ \A r1, r2 \in actions' : r1.id = r2.id => r1 = r2
     /\ AppendReturns =>
          /\ \A j \in assigned : ret'.id > j
          /\ \E r \in actions' \ actions : r.id = ret'.id]_vars

\* every earlier row was deleted, then an append received a fresh id
C6_Witness ==
  /\ ret.op = "logAction"
  /\ ret.error = ""
  /\ ret.id > 1
  /\ actions # {}
  /\ \A r \in actions : r.id = ret.id

\* C7: initialize() ends with the file and the table present, whatever it
\* found, and never changes the stored rows or the id sequence.
C7_InitializeIsIdempotent ==
  [][\A s \in Stores :
       /\ (pc[s] = "idle" /\ pc'[s] = "schema")
            => fileExists' /\ actions' = actions /\ seq' = seq
       /\ (pc[s] = "schema" /\ pc'[s] = "idle")
            => /\ fileExists' /\ tableExists' /\ db'[s]
               /\ actions' = actions
               /\ seq' = seq]_vars

\* the second connection has completed initialize() on a table with rows
C7_Witness ==
  /\ ret.op = "initialize"
  /\ ret.store = "s2"
  /\ db["s1"]
  /\ ret.before > 0
  /\ Cardinality(actions) = ret.before

\* ------------------------------------------------------------------------
\* Properties of GET /api/logs
\* ------------------------------------------------------------------------
\* str contains sub as a literal substring, ignoring case
Contains(str, sub) ==
  \E i \in 0..(Len(str) - Len(sub)) :
    \A j \in 1..Len(sub) : Lower(str[i + j]) = Lower(sub[j])

\* the filter a request asks for
Satisfies(r, q) ==
  /\ q.verdict \in {"", "all"} \/ r.verdict = q.verdict
  /\ q.tier = RawAbsent \/ (q.tier.k = "int" /\ r.tier = q.tier.v)
  /\ \/ q.search = <<>>
     \/ Contains(r.action_type, q.search)
     \/ Contains(r.target, q.search)
     \/ Contains(r.description, q.search)
  /\ q.since = <<>> \/ ParseDate(r.timestamp) >= ParseDate(q.since)

Unfiltered(q) ==
  q.verdict = "" /\ q.tier = RawAbsent /\ q.search = <<>> /\ q.since = <<>>

\* the latest request ran after a successful append of a valid event with
\* no write in between, unfiltered, from offset 0, with a limit that
\* covers the table
AppendedThenListed ==
  /\ hpc = "done"
  /\ res.status = 200
  /\ quiet
  /\ ret.op = "logAction"
  /\ ret.error = ""
  /\ ret.rows[1].tier # JsUndefined
  /\ Unfiltered(query)
  /\ query.offset = RawAbsent
  /\ query.limit.k = "int"
  /\ query.limit.v >= Cardinality(actions)

\* C1: after append(e) returned id i, an unfiltered query from offset 0
\* with a sufficient limit returns exactly one row with id i, carrying the
\* fields of e, and a total one greater than the row count before.
C1_AppendedEventIsListed ==
  AppendedThenListed =>
    LET e == ret.rows[1]
        hits == {k \in 1..Len(res.actions) : res.actions[k].id = ret.id}
    IN /\ Cardinality(hits) = 1
       /\ \A k \in hits :
            LET r == res.actions[k]
            IN /\ r.timestamp = e.timestamp
               /\ r.action_type = e.action_type
               /\ r.target = e.target
               /\ r.amount = e.amount
               /\ r.description = e.description
               /\ r.verdict = e.verdict
               /\ r.reason = e.reason
               /\ (r.key_was_valid = 1) = e.key_was_valid
               /\ r.tier = e.tier.v
       /\ res.total = ret.before + 1

\* the appended event is listed next to an older one
C1_Witness == AppendedThenListed /\ Len(res.actions) = 2

\* C8: total counts, and items holds, exactly the stored rows that satisfy
\* every supplied filter; an omitted filter and verdict "all" do not
\* constrain.
C8_FiltersCompose ==
  [][/\ (hpc = "count" /\ hpc' = "select")
          => countRow' = Cardinality({r \in actions : Satisfies(r, query)})
     /\ (hpc = "select" /\ hpc' = "done")
          => LET match == {r \in actions : Satisfies(r, query)}
             IN /\ Range(res'.actions) \subseteq match
                /\ Len(res'.actions) = Cardinality(Range(res'.actions))
                /\ (query.limit = RawAbsent /\ query.offset = RawAbsent)
                     => Range(res'.actions) = match]_vars

\* of two stored rows a request with two filters has returned the one row
\* that satisfies both
C8_Witness ==
  /\ hpc = "done"
  /\ res.status = 200
  /\ quiet
  /\ query.verdict = "block"
  /\ query.tier = RawInt(1)
  /\ Cardinality(actions) = 2
  /\ Len(res.actions) = 1
  /\ res.total = 1
  /\ \E r \in actions : r.tier = 1 /\ r.verdict = "pass"

\* C9: total is the number of rows matching the filter in the store state
\* the page was read from; items holds at most limit rows, all matching,
\* and a non-empty page ends at or before total.
C9_TotalAgreesWithPage ==
  [][(hpc = "select" /\ hpc' = "done")
       => LET match == {r \in actions : Satisfies(r, query)}
              n == Len(res'.actions)
          IN /\ res'.total = Cardinality(match)
             /\ n <= Limit(query)
             /\ Range(res'.actions) \subseteq match
             /\ n > 0 => Offset(query) + n <= res'.total]_vars

\* C10: items is ordered by timestamp descending, rows with equal
\* timestamps by id descending.
C10_NewestFirstTiesByIdDesc ==
  (hpc = "done" /\ res.status = 200) =>
    \A i, j \in 1..Len(res.actions) :
      i < j =>
        \/ ParseDate(res.actions[i].timestamp)
             > ParseDate(res.actions[j].timestamp)
        \/ /\ res.actions[i].timestamp = res.actions[j].timestamp
           /\ res.actions[i].id > res.actions[j].id

\* ------------------------------------------------------------------------
\* A series of pages of GET /api/logs
\* ------------------------------------------------------------------------
\* The page statement has one SQL text for every limit and offset, which are
\* bound parameters; SQLite prepares it against the same schema on every
\* request, so the requests of a series run the same plan.  The client walks
\* offset 0, k, 2k, ... until a page comes back empty.
PageSizes == {1, 2}
PageVerdicts == {"", "block"}

PageQuery(v, k, off) ==
  [NoQuery EXCEPT !.limit = RawInt(k), !.offset = RawInt(off), !.verdict = v]

\* the latest response has been added to the series
Collected ==
  Len(pages.rows) * Limit(query) = Offset(query) + Limit(query)

SeriesDone ==
  /\ pages.rows # <<>>
  /\ pages.rows[Len(pages.rows)] = <<>>

\* the first request of a series
PageFirst(v, k) ==
  /\ pages = NoPages
  /\ LogsBegin(PageQuery(v, k, 0))

\* the client takes the response as the next page of the series
PageCollect ==
  /\ hpc = "done"
  /\ res.status = 200
  /\ Len(pages.rows) * Limit(query) = Offset(query)
  /\ pages' = [rows |-> Append(pages.rows, res.actions),
               table |-> IF pages.rows = <<>> THEN actions ELSE pages.table,
               clean |-> /\ pages.clean
                         /\ quiet
                         /\ pages.rows = <<>> \/ actions = pages.table]
  /\ UNCHANGED <<now, quiet, plan, stats>>
  /\ UNCHANGED fileVars
  /\ UNCHANGED storeVars
  /\ UNCHANGED serverVars
  /\ UNCHANGED reviewVars
  /\ UNCHANGED uiVars

\* the request for the page after a non-empty one
PageNext ==
  /\ pages.rows # <<>>
  /\ Collected
  /\ ~SeriesDone
  /\ LogsBegin(PageQuery(query.verdict, Limit(query),
                         Offset(query) + Limit(query)))

\* the client drops the series and starts over
PageReset ==
  /\ SeriesDone
  /\ pages' = NoPages
  /\ hpc' = "idle"
  /\ UNCHANGED <<now, quiet, plan, stats, query, countRow, res>>
  /\ UNCHANGED fileVars
  /\ UNCHANGED storeVars
  /\ UNCHANGED reviewVars
  /\ UNCHANGED uiVars

PagesNext ==
  \/ InitializeOpen(Writer)
  \/ InitializeSchema(Writer)
  \/ \E e \in Entries : LogAction(Writer, e)
  \/ \E v \in PageVerdicts, k \in PageSizes : PageFirst(v, k)
  \/ LogsCount
  \/ LogsSelectWith(plan)
  \/ PageCollect
  \/ PageNext
  \/ PageReset

PagesInit ==
  /\ StoreInit /\ ReaderInit /\ now = NowStart + 1 /\ plan \in Plans
  /\ PageInit /\ rules = RulesOf(DefaultLimits)

PagesSpec == PagesInit /\ [][PagesNext]_vars

\* the rows of a series, page after page
RECURSIVE Concat(_)
Concat(sqs) == IF sqs = <<>> THEN <<>> ELSE Head(sqs) \o Concat(Tail(sqs))

RawLimits ==
  {RawAbsent, RawInt(0), RawInt(0 - 1), RawInt(1), RawInt(1000), RawText}
RawOffsets == {RawAbsent, RawInt(0 - 1), RawInt(1), RawText}
RawTiers == {RawInt(1), RawText}
Searches == {<<"a">>, <<"_">>, <<"%">>, <<"b", "_">>}

\* requests that vary the paging, the tier or the search, one at a time
ParamQueries ==
  {[NoQuery EXCEPT !.limit = l, !.offset = o] :
     l \in RawLimits, o \in RawOffsets}
  \cup {[NoQuery EXCEPT !.tier = t] : t \in RawTiers}
  \cup {[NoQuery EXCEPT !.search = x] : x \in Searches}

ParamNext ==
  \/ InitializeOpen(Writer)
  \/ InitializeSchema(Writer)
  \/ \E e \in Entries : LogAction(Writer, e)
  \/ \E q \in ParamQueries : LogsBegin(q)
  \/ LogsCount
  \/ LogsSelect

ParamSpec == LogsInit /\ [][ParamNext]_vars

\* a step in which the page statement runs and the response is sent, no
\* write having happened since the request began
Answers == hpc = "select" /\ hpc' = "done" /\ quiet

\* C12: the limit applied to the page is a positive integer, so the page
\* holds at most that many rows, and the offset applied is not negative,
\* whatever numbers the caller sent.  (SQLite reads a negative OFFSET as 0
\* and a negative LIMIT as no limit.)
C12_PagingIsClamped ==
  [][Answers =>
       /\ Limit(query) >= 1
       /\ Len(res'.actions) <= Limit(query)
       /\ (IF Offset(query) < 0 THEN 0 ELSE Offset(query)) >= 0]_vars

\* the request as it would be without its non-numeric parameters
Omitting(q) ==
  [q EXCEPT !.limit = IF q.limit.k = "text" THEN RawAbsent ELSE q.limit,
            !.offset = IF q.offset.k = "text" THEN RawAbsent ELSE q.offset,
            !.tier = IF q.tier.k = "text" THEN RawAbsent ELSE q.tier]

\* C13: a non-numeric limit acts as 50, a non-numeric offset as 0, and a
\* non-numeric tier as no tier filter: the response is the one the request
\* would get without these parameters.
C13_NonNumericFallsBack ==
  [][Answers =>
       LET match == {r \in actions : Satisfies(r, Omitting(query))}
       IN /\ res'.status = 200
          /\ query.limit.k = "text" => Limit(query) = 50
          /\ query.offset.k = "text" => Offset(query) = 0
          /\ res'.total = Cardinality(match)
          /\ (Limit(query) >= Cardinality(actions) /\ Offset(query) = 0)
               => Range(res'.actions) = match]_vars

\* C14: with a search term, also one holding % or _, the rows counted and
\* returned are exactly those in which the term occurs, ignoring case, as a
\* literal substring of action_type, target or description.
C14_SearchIsLiteralSubstring ==
  [][(Answers /\ query.search # <<>>) =>
       LET match ==
             {r \in actions : \/ Contains(r.action_type, query.search)
                              \/ Contains(r.target, query.search)
                              \/ Contains(r.description, query.search)}
       IN /\ res'.total = Cardinality(match)
          /\ Range(res'.actions) = match]_vars

\* ------------------------------------------------------------------------
\* GET /api/logs/stats
\* ------------------------------------------------------------------------
\* date(timestamp) and date('now'): the calendar date, in UTC, of an ISO
\* string and of the clock
SqlDate(str) == str[1]
SqlDateNow(t) == t \div TicksPerDay

\* the rows each statement of the handler counts or sums
StatsOfSession(rows) == {r \in rows : r.session_id = sessionStart["s1"]}
StatsAll(rows) == rows

StatsUnverified(rows) == {r \in rows : r.key_was_valid = 0}
StatsVerified(rows) == {r \in rows : r.key_was_valid = 1}

StatsBlocked(rows) == {r \in rows : r.verdict = "block"}

StatsUnverifiedTier1(rows) ==
  {r \in rows : r.key_was_valid = 0 /\ r.tier = 1}

StatsTierAtLeast(rows, t) == {r \in rows : r.tier >= t}
StatsTier(rows, t) == {r \in rows : r.tier = t}

StatsUpToToday(rows, t) == {r \in rows : SqlDate(r.timestamp) <= SqlDateNow(t)}
StatsToday(rows, t) == {r \in rows : SqlDate(r.timestamp) = SqlDateNow(t)}

\* COALESCE(SUM(amount), 0)
RECURSIVE SumAmount(_)
SumAmount(rows) ==
  IF rows = {} THEN 0
  ELSE LET r == CHOOSE x \in rows : TRUE
       IN r.amount + SumAmount(rows \ {r})

\* the events logged while the stats endpoint is polled: every tier from
\* none to 3, verified and not, blocked and passed, dated on two days
StatsEntries ==
  { [timestamp |-> ToISOString(1), action_type |-> <<"a">>,
     target |-> <<"b">>, amount |-> 5, description |-> <<"b">>,
     verdict |-> "block", reason |-> <<"a">>, key_was_valid |-> FALSE,
     tier |-> JsNum(1)],
    [timestamp |-> ToISOString(2), action_type |-> <<"a">>,
     target |-> <<"b">>, amount |-> 3, description |-> <<"b">>,
     verdict |-> "pass", reason |-> <<>>, key_was_valid |-> TRUE,
     tier |-> JsNum(1)],
    [timestamp |-> ToISOString(3), action_type |-> <<"a">>,
     target |-> <<"b">>, amount |-> 4, description |-> <<"b">>,
     verdict |-> "pass", reason |-> <<>>, key_was_valid |-> FALSE,
     tier |-> JsNum(2)],
    [timestamp |-> ToISOString(2), action_type |-> <<"a">>,
     target |-> <<"b">>, amount |-> 2, description |-> <<"b">>,
     verdict |-> "pass", reason |-> <<>>, key_was_valid |-> TRUE,
     tier |-> JsNum(3)],
    [timestamp |-> ToISOString(3), action_type |-> <<"a">>,
     target |-> <<"b">>, amount |-> 1, description |-> <<"b">>,
     verdict |-> "block", reason |-> <<"a">>, key_was_valid |-> FALSE,
     tier |-> JsUndefined] }

\* the events of tier 1 are also logged by a second session
OtherSessionEntries == {e \in StatsEntries : e.tier = JsNum(1)}

\* the handler up to openDb(); without the file it answers at once
StatsBegin ==
  /\ stats.pc \in {"idle", "done"}
  /\ quiet' = TRUE
  /\ IF ~fileExists
     THEN stats' = [NoStats EXCEPT !.pc = "done", !.status = 200]
     ELSE stats' = [NoStats EXCEPT !.pc = "totalActions"]
  /\ UNCHANGED <<now, plan, pages>>
  /\ UNCHANGED fileVars
  /\ UNCHANGED storeVars
  /\ UNCHANGED serverVars
  /\ UNCHANGED reviewVars
  /\ UNCHANGED uiVars

\* one SELECT COUNT(*) of the handler: its result goes to the constant
\* named at; a missing table throws and the catch block answers 500
StatsCount(at, to, n) ==
  /\ stats.pc = at
  /\ IF ~tableExists
     THEN stats' = [NoStats EXCEPT !.pc = "done", !.status = 500]
     ELSE stats' = [stats EXCEPT !.pc = to, ![at] = n]
  /\ UNCHANGED <<now, quiet, plan, pages>>
  /\ UNCHANGED fileVars
  /\ UNCHANGED storeVars
  /\ UNCHANGED serverVars
  /\ UNCHANGED reviewVars
  /\ UNCHANGED uiVars

StatsTotal ==
  StatsCount("totalActions", "verifiedCount", Cardinality(StatsAll(actions)))

StatsVerifiedCount ==
  StatsCount("verifiedCount", "blockedCount",
             Cardinality(StatsVerified(actions)))

StatsBlockedCount ==
  StatsCount("blockedCount", "unverifiedTier1Count",
             Cardinality(StatsBlocked(actions)))

StatsUnverifiedTier1Count ==
  StatsCount("unverifiedTier1Count", "t1",
             Cardinality(StatsUnverifiedTier1(actions)))

StatsT1 == StatsCount("t1", "t2", Cardinality(StatsTier(actions, 1)))
StatsT2 == StatsCount("t2", "t3", Cardinality(StatsTier(actions, 2)))
StatsT3 == StatsCount("t3", "dailySpend", Cardinality(StatsTier(actions, 3)))

\* the SUM statement, db.close() and the response
StatsDailySpend ==
  /\ stats.pc = "dailySpend"
  /\ IF ~tableExists
     THEN stats' = [NoStats EXCEPT !.pc = "done", !.status = 500]
     ELSE stats' = [stats EXCEPT
                      !.pc = "done",
                      !.status = 200,
                      !.dailySpend = SumAmount(StatsToday(actions, now)),
                      !.sessionActions = stats.totalActions,
                      !.unverifiedCount =
                        stats.totalActions - stats.verifiedCount]
  /\ UNCHANGED <<now, quiet, plan, pages>>
  /\ UNCHANGED fileVars
  /\ UNCHANGED storeVars
  /\ UNCHANGED serverVars
  /\ UNCHANGED reviewVars
  /\ UNCHANGED uiVars

\* Two LogStore instances, hence two sessions, and the polling of the stats
\* endpoint
StatsNext ==
  \/ InitializeOpen(Writer)
  \/ InitializeSchema(Writer)
  \/ Initialize("s2")
  \/ \E e \in StatsEntries : LogAction(Writer, e)
  \/ \E e \in OtherSessionEntries : LogAction("s2", e)
  \/ StatsBegin
  \/ StatsTotal
  \/ StatsVerifiedCount
  \/ StatsBlockedCount
  \/ StatsUnverifiedTier1Count
  \/ StatsT1
  \/ StatsT2
  \/ StatsT3
  \/ StatsDailySpend

StatsSpec == Init /\ [][StatsNext]_vars

\* C15: no read endpoint ever answers with a failure status; without the
\* file or without the table it reads, it sends its empty-state response.
C15_ReadsDegradeToEmpty ==
  /\ res.status # 500
  /\ stats.status # 500
  /\ revRes.status # 500
  /\ trends.status # 500

\* a stats response computed with no write since the request began
StatsAnswered == stats.pc = "done" /\ stats.status = 200 /\ quiet

\* C16: totalActions is the number of stored events, verifiedCount the
\* number with key_was_valid true, unverifiedCount their difference and
\* blockedCount the number with verdict block.
C16_StatsCountsAreExact ==
  StatsAnswered =>
    /\ stats.totalActions = Cardinality(actions)
    /\ stats.verifiedCount =
         Cardinality({r \in actions : r.key_was_valid = 1})
    /\ stats.unverifiedCount = stats.totalActions - stats.verifiedCount
    /\ stats.blockedCount =
         Cardinality({r \in actions : r.verdict = "block"})
    /\ 0 <= stats.verifiedCount
    /\ stats.verifiedCount <= stats.totalActions
    /\ stats.unverifiedCount >= 0

\* a response over a verified, passed event and an unverified, blocked one
C16_Witness ==
  /\ StatsAnswered
  /\ stats.totalActions = 2
  /\ stats.verifiedCount = 1
  /\ stats.blockedCount = 1

\* C17: t1, t2 and t3 count the events of tier 1, 2 and 3, an event of
\* any other tier is in none of them, and unverifiedTier1Count counts the
\* events of tier 1 with key_was_valid false.
C17_TierBreakdownIsExact ==
  StatsAnswered =>
    /\ stats.t1 = Cardinality({r \in actions : r.tier = 1})
    /\ stats.t2 = Cardinality({r \in actions : r.tier = 2})
    /\ stats.t3 = Cardinality({r \in actions : r.tier = 3})
    /\ stats.unverifiedTier1Count =
         Cardinality({r \in actions : r.tier = 1 /\ r.key_was_valid = 0})
    /\ stats.unverifiedTier1Count <= stats.t1
    /\ stats.t1 + stats.t2 + stats.t3 <= stats.totalActions

\* a response over an event without tier and a verified event of tier 1
C17_Witness ==
  /\ StatsAnswered
  /\ stats.totalActions = 2
  /\ stats.t1 = 1
  /\ stats.t2 + stats.t3 = 0
  /\ stats.unverifiedTier1Count = 0
  /\ \E r \in actions : r.tier = 0 /\ r.key_was_valid = 0

\* C18: dailySpend is the sum of amount over exactly the events dated on
\* the current calendar date, and 0 when there is none.
C18_DailySpendIsTodaysSum ==
  StatsAnswered =>
    LET today == {r \in actions :
                    ParseDate(r.timestamp) \div TicksPerDay
                      = now \div TicksPerDay}
    IN /\ stats.dailySpend = SumAmount(today)
       /\ today = {} => stats.dailySpend = 0

\* a response over an event dated today and one dated on an earlier day
C18_Witness ==
  /\ StatsAnswered
  /\ stats.dailySpend > 0
  /\ stats.dailySpend < SumAmount(actions)

\* C19: the stats cover the events of every session, and sessionActions
\* equals totalActions.
C19_StatsSpanAllSessions ==
  StatsAnswered =>
    /\ stats.totalActions = Cardinality(actions)
    /\ stats.sessionActions = stats.totalActions
    /\ stats.verifiedCount + stats.unverifiedCount = Cardinality(actions)

\* a response over two events appended by different LogStore instances
C19_Witness ==
  /\ StatsAnswered
  /\ stats.sessionActions = 2
  /\ \E r1, r2 \in actions : r1.session_id # r2.session_id

\* ------------------------------------------------------------------------
\* The reviews table, GET /api/reviews and GET /api/reviews/trends
\* ------------------------------------------------------------------------
\* at most this many reviews are ever written
MaxReviews == 4

\* parseInt(req.query.limit) || 20 and parseInt(req.query.days) || 30
DefaultReviewsLimit == 20
DefaultTrendDays == 30
\* the two windows compared for the trend, and the threshold on their means
RecentDays == 7
PreviousDays == 14
TrendThreshold == 5

\* the instants and the scores (overall, goal alignment, security
\* compliance) of the reviews the supervisor writes
ReviewTicks == {0, 2, 3}
ReviewScores == {<<70, 50, 91>>, <<71, 60, 90>>}

ReviewRow(id, t, sc) ==
  [id |-> id, timestamp |-> ToISOString(t), overall_score |-> sc[1],
   goal_alignment_score |-> sc[2], security_compliance_score |-> sc[3]]

\* The supervisor closes a session: it creates the reviews table if it is
\* absent and inserts one review, stamped with the time of the insert, so
\* never earlier than the review before it.  (Its code is outside this
\* repository.)
ReviewAppend(t, sc) ==
  /\ Len(reviews) < MaxReviews
  /\ reviews # <<>> => ParseDate(reviews[Len(reviews)].timestamp) <= t
  /\ fileExists' = TRUE
  /\ reviewsExists' = TRUE
  /\ reviews' = Append(reviews, ReviewRow(Len(reviews) + 1, t, sc))
  /\ UNCHANGED <<tableExists, actions, seq, now, quiet, plan, pages, stats,
                 revRes, trends>>
  /\ UNCHANGED storeVars
  /\ UNCHANGED serverVars
  /\ UNCHANGED uiVars

\* ORDER BY timestamp ASC: the rows as a sequence
RECURSIVE OrderByTimestampAsc(_, _)
OrderByTimestampAsc(pl, rows) ==
  IF rows = {} THEN <<>>
  ELSE LET first == CHOOSE a \in rows :
                      \A b \in rows \ {a} : Before(pl, b, a)
       IN <<first>> \o OrderByTimestampAsc(pl, rows \ {first})

\* GET /api/reviews up to the COUNT statement; without the file, and
\* without the table ('no such table' is caught), the empty response
ReviewsCount(rawLimit, rawOffset) ==
  /\ revRes.pc \in {"idle", "done"}
  /\ IF ~fileExists \/ ~reviewsExists
     THEN revRes' = [NoRevRes EXCEPT !.pc = "done", !.status = 200]
     ELSE revRes' =
            [NoRevRes EXCEPT
               !.pc = "select",
               !.limit = OrDefault(ParseInt(rawLimit), DefaultReviewsLimit),
               !.offset = OrDefault(ParseInt(rawOffset), 0),
               !.total = Len(reviews)]
  /\ UNCHANGED <<now, quiet, plan, pages, stats, reviewsExists, reviews,
                 trends>>
  /\ UNCHANGED fileVars
  /\ UNCHANGED storeVars
  /\ UNCHANGED serverVars
  /\ UNCHANGED uiVars

\* SELECT * FROM reviews ORDER BY timestamp DESC LIMIT ? OFFSET ? and the
\* response; the decoding of highlights and insights is left out
ReviewsSelect ==
  /\ revRes.pc = "select"
  /\ \E pl \in Plans :
       revRes' = [revRes EXCEPT
                    !.pc = "done",
                    !.status = 200,
                    !.reviews =
                      LimitOffset(OrderByTimestampDesc(pl, Range(reviews)),
                                  revRes.limit, revRes.offset)]
  /\ UNCHANGED <<now, quiet, plan, pages, stats, reviewsExists, reviews,
                 trends>>
  /\ UNCHANGED fileVars
  /\ UNCHANGED storeVars
  /\ UNCHANGED serverVars
  /\ UNCHANGED uiVars

\* row.timestamp.split('T')[0]
DatePart(str) == str[1]

\* the dates of the rows, each once, in the order of first appearance: the
\* keys of byDate, which Object.entries lists in insertion order
RECURSIVE DatesOf(_)
DatesOf(rows) ==
  IF rows = <<>> THEN <<>>
  ELSE LET d == DatePart(rows[1].timestamp)
           rest == SelectSeq(Tail(rows),
                             LAMBDA r : DatePart(r.timestamp) # d)
       IN <<d>> \o DatesOf(rest)

RECURSIVE SumSeq(_)
SumSeq(nums) == IF nums = <<>> THEN 0 ELSE Head(nums) + SumSeq(Tail(nums))

\* Math.round(x * 100) / 100 for x = sum / n, as a number of hundredths
MathTrunc2(sum, n) == (100 * sum) \div n
MathRound2(sum, n) == (200 * sum + n) \div (2 * n)

\* Math.round(avg(arr) * 100) / 100, as a number of hundredths
Avg2(nums) ==
  IF nums = <<>> THEN 0 ELSE MathRound2(SumSeq(nums), Len(nums))

Overalls(rows) == [i \in 1..Len(rows) |-> rows[i].overall_score]
Alignments(rows) == [i \in 1..Len(rows) |-> rows[i].goal_alignment_score]
Securities(rows) ==
  [i \in 1..Len(rows) |-> rows[i].security_compliance_score]

DailyScores(rows) ==
  LET dates == DatesOf(rows)
      of(d) == SelectSeq(rows, LAMBDA r : DatePart(r.timestamp) = d)
  IN [i \in 1..Len(dates) |->
        [date |-> dates[i],
         overall |-> Avg2(Overalls(of(dates[i]))),
         alignment |-> Avg2(Alignments(of(dates[i]))),
         security |-> Avg2(Securities(of(dates[i])))]]

\* the means of the per-day means
AveragesOfDays(rows) ==
  LET daily == DailyScores(rows)
      mean(f) == IF daily = <<>> THEN 0
                 ELSE MathRound2(SumSeq([i \in 1..Len(daily) |-> daily[i][f]]),
                                 100 * Len(daily))
  IN [overall |-> mean("overall"), alignment |-> mean("alignment"),
      security |-> mean("security")]

Averages(rows) ==
  [overall |-> Avg2(Overalls(rows)),
   alignment |-> Avg2(Alignments(rows)),
   security |-> Avg2(Securities(rows))]

\* a classification that counts a difference of exactly the threshold as
\* a change
TrendDirectionInclusive(rows, t) ==
  LET recent == Overalls(SelectSeq(rows, LAMBDA r :
                  ParseDate(r.timestamp) >= SetDateBack(t, RecentDays)))
      previous == Overalls(SelectSeq(rows, LAMBDA r :
                    /\ ParseDate(r.timestamp) >= SetDateBack(t, PreviousDays)
                    /\ ParseDate(r.timestamp) < SetDateBack(t, RecentDays)))
      nr == Len(recent)
      np == Len(previous)
      diff == SumSeq(recent) * np - SumSeq(previous) * nr
  IN IF np = 0 \/ nr = 0 THEN "stable"
     ELSE IF diff >= TrendThreshold * nr * np THEN "improving"
     ELSE IF diff <= (0 - TrendThreshold) * nr * np THEN "declining"
     ELSE "stable"

\* recentAvg - previousAvg against the threshold, on the exact means
TrendDirection(rows, t) ==
  LET recent == Overalls(SelectSeq(rows, LAMBDA r :
                  ParseDate(r.timestamp) >= SetDateBack(t, RecentDays)))
      previous == Overalls(SelectSeq(rows, LAMBDA r :
                    /\ ParseDate(r.timestamp) >= SetDateBack(t, PreviousDays)
                    /\ ParseDate(r.timestamp) < SetDateBack(t, RecentDays)))
      nr == Len(recent)
      np == Len(previous)
      diff == SumSeq(recent) * np - SumSeq(previous) * nr
  IN IF np = 0 \/ nr = 0 THEN "stable"
     ELSE IF diff > TrendThreshold * nr * np THEN "improving"
     ELSE IF diff < (0 - TrendThreshold) * nr * np THEN "declining"
     ELSE "stable"

\* a loop that lets a later day replace an equal earlier one
RECURSIVE BestDayLatest(_, _)
BestDayLatest(daily, best) ==
  IF daily = <<>> THEN best
  ELSE BestDayLatest(Tail(daily),
               IF best = JsNull \/ Head(daily).overall >= best.score
               THEN [date |-> Head(daily).date, score |-> Head(daily).overall]
               ELSE best)

\* the loop over daily_scores that keeps the best and the worst day
RECURSIVE BestDay(_, _)
BestDay(daily, best) ==
  IF daily = <<>> THEN best
  ELSE BestDay(Tail(daily),
               IF best = JsNull \/ Head(daily).overall > best.score
               THEN [date |-> Head(daily).date, score |-> Head(daily).overall]
               ELSE best)

RECURSIVE WorstDay(_, _)
WorstDay(daily, worst) ==
  IF daily = <<>> THEN worst
  ELSE WorstDay(Tail(daily),
                IF worst = JsNull \/ Head(daily).overall < worst.score
                THEN [date |-> Head(daily).date, score |-> Head(daily).overall]
                ELSE worst)

RawDays == {RawAbsent, RawInt(0), RawInt(1), RawText}
ReviewLimits == {RawAbsent, RawInt(1), RawText}
ReviewOffsets == {RawAbsent, RawInt(1)}

\* parseInt(req.query.days) || 30
Days(raw) == OrDefault(ParseInt(raw), DefaultTrendDays)

\* a SELECT without its WHERE clause
SelectAll(rows, cutoffS) == rows
\* SELECT * FROM reviews WHERE timestamp >= ?
SelectSince(rows, cutoffS) == {r \in rows : TextGe(r.timestamp, cutoffS)}

\* GET /api/reviews/trends: one SELECT and the computation of the response
TrendsGet(rawDays) ==
  /\ IF ~fileExists \/ ~reviewsExists
     THEN trends' = [NoTrends EXCEPT !.status = 200, !.days = rawDays]
     ELSE \E pl \in Plans :
          \E cutoffS \in {ToISOString(SetDateBack(now, Days(rawDays)))} :
          \E rows \in {OrderByTimestampAsc(pl,
                          SelectSince(Range(reviews), cutoffS))} :
          \E daily \in {DailyScores(rows)} :
               trends' = [status |-> 200,
                          days |-> rawDays,
                          daily_scores |-> daily,
                          averages |-> Averages(rows),
                          trend_direction |-> TrendDirection(rows, now),
                          best_day |-> BestDay(daily, JsNull),
                          worst_day |-> WorstDay(daily, JsNull)]
  /\ UNCHANGED <<now, quiet, plan, pages, stats, reviewsExists, reviews,
                 revRes>>
  /\ UNCHANGED fileVars
  /\ UNCHANGED storeVars
  /\ UNCHANGED serverVars
  /\ UNCHANGED uiVars

\* The supervisor writing reviews, a LogStore, and the list of reviews
ReviewsNext ==
  \/ Initialize(Writer)
  \/ \E t \in ReviewTicks, sc \in ReviewScores : ReviewAppend(t, sc)
  \/ \E l \in ReviewLimits, o \in ReviewOffsets : ReviewsCount(l, o)
  \/ ReviewsSelect

ReviewsSpec == LogsInit /\ [][ReviewsNext]_vars

\* The supervisor writing reviews, a LogStore, and the trends of the reviews
TrendsNext ==
  \/ Initialize(Writer)
  \/ \E t \in ReviewTicks, sc \in ReviewScores : ReviewAppend(t, sc)
  \/ \E d \in RawDays : TrendsGet(d)

TrendsSpec == LogsInit /\ [][TrendsNext]_vars

\* the reviews of the last n days, and those of a set of reviews dated d
InWindow(n) ==
  {r \in Range(reviews) : ParseDate(r.timestamp) >= now - n * TicksPerDay}
OnDate(S, d) == {r \in S : ParseDate(r.timestamp) \div TicksPerDay = d}

RECURSIVE SumScore(_, _)
SumScore(S, f) ==
  IF S = {} THEN 0
  ELSE LET r == CHOOSE x \in S : TRUE IN r[f] + SumScore(S \ {r}, f)

\* a value in hundredths is exactly, or is to two decimals, the mean of
\* field f over S
IsMean(h, S, f) == h * Cardinality(S) = 100 * SumScore(S, f)
IsRoundedMean(h, S, f) ==
  LET e == 2 * (100 * SumScore(S, f) - h * Cardinality(S))
  IN 0 - Cardinality(S) < e /\ e <= Cardinality(S)

\* daily has one record for each date of S and no other, in strictly
\* ascending date order, each value being related by Is to its field
DailyScoresOf(daily, S, Is(_, _, _)) ==
  /\ {daily[i].date : i \in 1..Len(daily)}
       = {ParseDate(r.timestamp) \div TicksPerDay : r \in S}
  /\ \A i, j \in 1..Len(daily) : i < j => daily[i].date < daily[j].date
  /\ \A i \in 1..Len(daily) :
       \A day \in {OnDate(S, daily[i].date)} :
         /\ Is(daily[i].overall, day, "overall_score")
         /\ Is(daily[i].alignment, day, "goal_alignment_score")
         /\ Is(daily[i].security, day, "security_compliance_score")

\* the trends endpoint answers from the reviews table
TrendsAnswers == trends' # trends /\ reviewsExists

\* C20, as stated: daily_scores has exactly one record per date that has a
\* review with timestamp >= now - days, days being the number sent or 30
\* without one, each value the mean of that date's scores, in strictly
\* ascending date order.
C20_DailyScoresAreMeans ==
  [][TrendsAnswers =>
       \A tr \in {trends'} :
         \A S \in {InWindow(IF tr.days.k = "int" THEN tr.days.v ELSE 30)} :
           DailyScoresOf(tr.daily_scores, S, IsMean)]_vars

\* C20, amended: the window is now - days with days the number sent, or 30
\* when none, a non-number or 0 is sent, and each value is the mean of that
\* date's scores rounded to two decimal places.
C20_DailyScoresAreRoundedMeans ==
  [][TrendsAnswers =>
       \A tr \in {trends'} :
         \A S \in {InWindow(IF tr.days.k = "int" /\ tr.days.v # 0
                             THEN tr.days.v ELSE 30)} :
           DailyScoresOf(tr.daily_scores, S, IsRoundedMean)]_vars

\* a response over all the reviews with two dates, the later one with three
\* reviews whose mean has more than two decimals
C20_Witness ==
  /\ trends.status = 200
  /\ Len(reviews) = MaxReviews
  /\ Len(trends.daily_scores) = 2
  /\ Cardinality(OnDate(Range(reviews), trends.daily_scores[2].date)) = 3
  /\ trends.daily_scores[2].overall \in {7033, 7067}

\* ------------------------------------------------------------------------
\* GET /api/reviews/trends: averages, trend direction, best and worst day
\* ------------------------------------------------------------------------
\* the number of days of the window the handler uses for a days parameter
EffectiveDays(raw) == IF raw.k = "int" /\ raw.v # 0 THEN raw.v ELSE 30

\* the three averages of a response are related by Is to the scores of S
AveragesOf(av, S, Is(_, _, _)) ==
  /\ Is(av.overall, S, "overall_score")
  /\ Is(av.alignment, S, "goal_alignment_score")
  /\ Is(av.security, S, "security_compliance_score")

\* C21, as stated: when reviews are selected, each of averages.overall,
\* averages.alignment and averages.security equals the mean of its score
\* over all the selected reviews, every review weighted equally.
C21_AveragesArePooledMeans ==
  [][TrendsAnswers =>
       \A tr \in {trends'} :
         \A S \in {InWindow(EffectiveDays(tr.days))} :
           S # {} => AveragesOf(tr.averages, S, IsMean)]_vars

\* C21, amended: each average is the mean of its score over all the
\* selected reviews, every review weighted equally, rounded to two decimal
\* places.
C21_AveragesAreRoundedPooledMeans ==
  [][TrendsAnswers =>
       \A tr \in {trends'} :
         \A S \in {InWindow(EffectiveDays(tr.days))} :
           S # {} => AveragesOf(tr.averages, S, IsRoundedMean)]_vars

\* a response over two dates, one review on the first and three on the
\* second, whose overall average is not the mean of the two daily values
C21_Witness ==
  /\ trends.status = 200
  /\ trends.days = RawAbsent
  /\ Len(reviews) = MaxReviews
  /\ Len(trends.daily_scores) = 2
  /\ Cardinality(OnDate(Range(reviews), trends.daily_scores[2].date)) = 3
  /\ IsRoundedMean(trends.averages.overall, Range(reviews), "overall_score")
  /\ 2 * trends.averages.overall
       > trends.daily_scores[1].overall + trends.daily_scores[2].overall + 1

\* Reviews around the two seven-day windows: one tick before and exactly at
\* fourteen days ago, one tick before and exactly at seven days ago
DirectionNow == NowStart + 1
DirectionTicks ==
  {SetDateBack(DirectionNow, PreviousDays) - 1,
   SetDateBack(DirectionNow, PreviousDays),
   SetDateBack(DirectionNow, RecentDays) - 1,
   SetDateBack(DirectionNow, RecentDays)}
DirectionScores == {<<60, 50, 90>>, <<65, 50, 90>>, <<71, 50, 90>>}
DirectionDays == {RawAbsent, RawInt(0), RawInt(RecentDays)}

DirectionNext ==
  \/ \E t \in DirectionTicks, sc \in DirectionScores : ReviewAppend(t, sc)
  \/ \E d \in DirectionDays : TrendsGet(d)

DirectionSpec == LogsInit /\ [][DirectionNext]_vars

\* the selected reviews of the last 7 days and of the 7 days before that
RecentOf(S) ==
  {r \in S : ParseDate(r.timestamp) >= now - 7 * TicksPerDay}
PreviousOf(S) ==
  {r \in S : /\ ParseDate(r.timestamp) >= now - 14 * TicksPerDay
             /\ ParseDate(r.timestamp) < now - 7 * TicksPerDay}

\* recentAvg - previousAvg > c, and < c, for two non-empty groups R and P
DiffAbove(R, P, c) ==
  SumScore(R, "overall_score") * Cardinality(P)
    - SumScore(P, "overall_score") * Cardinality(R)
  > c * Cardinality(R) * Cardinality(P)
DiffBelow(R, P, c) ==
  SumScore(R, "overall_score") * Cardinality(P)
    - SumScore(P, "overall_score") * Cardinality(R)
  < c * Cardinality(R) * Cardinality(P)

Classified(dir, S) ==
  \A R \in {RecentOf(S)}, P \in {PreviousOf(S)} :
    /\ dir \in {"improving", "declining", "stable"}
    /\ (R = {} \/ P = {}) => dir = "stable"
    /\ (R # {} /\ P # {}) =>
         /\ dir = "improving" <=> DiffAbove(R, P, 5)
         /\ dir = "declining" <=> DiffBelow(R, P, 0 - 5)

DayRecord(daily, i) == [date |-> daily[i].date, score |-> daily[i].overall]

\* C23: best_day is a per-day record with the maximum overall value and
\* worst_day one with the minimum overall value among daily_scores, the
\* earliest date among those that tie; both are null exactly when
\* daily_scores is empty, and otherwise best_day.score >= worst_day.score.
C23_BestAndWorstDay ==
  [][TrendsAnswers =>
       \A tr \in {trends'} :
         \A daily \in {tr.daily_scores} :
           /\ tr.best_day = JsNull <=> daily = <<>>
           /\ tr.worst_day = JsNull <=> daily = <<>>
           /\ daily # <<>> =>
                /\ \E i \in 1..Len(daily) :
                     /\ tr.best_day = DayRecord(daily, i)
                     /\ \A j \in 1..Len(daily) :
                          \/ daily[j].overall < daily[i].overall
                          \/ /\ daily[j].overall = daily[i].overall
                             /\ daily[j].date >= daily[i].date
                /\ \E i \in 1..Len(daily) :
                     /\ tr.worst_day = DayRecord(daily, i)
                     /\ \A j \in 1..Len(daily) :
                          \/ daily[j].overall > daily[i].overall
                          \/ /\ daily[j].overall = daily[i].overall
                             /\ daily[j].date >= daily[i].date
                /\ tr.best_day.score >= tr.worst_day.score]_vars

\* a response with three days, the last two tied for the maximum: the
\* earlier of the two is the best day
C23_Witness ==
  /\ trends.status = 200
  /\ Len(trends.daily_scores) >= 3
  /\ \E i, j \in 2..Len(trends.daily_scores) :
       /\ i < j
       /\ trends.daily_scores[i].overall = trends.daily_scores[j].overall
       /\ trends.best_day = DayRecord(trends.daily_scores, i)
  /\ trends.best_day.score > trends.worst_day.score

\* the response without any selected review
EmptyTrends(raw) == [NoTrends EXCEPT !.status = 200, !.days = raw]

\* no field of the response tr depends on a review outside S
OnlyFrom(tr, S) ==
  \A dates \in {{ParseDate(r.timestamp) \div TicksPerDay : r \in S}} :
    /\ \A i \in 1..Len(tr.daily_scores) : tr.daily_scores[i].date \in dates
    /\ tr.best_day # JsNull => tr.best_day.date \in dates
    /\ tr.worst_day # JsNull => tr.worst_day.date \in dates
    /\ S # {} => AveragesOf(tr.averages, S, IsRoundedMean)
    /\ Classified(tr.trend_direction, S)

\* C24, as stated: when the reviews table exists but no review has
\* timestamp >= now - days, days being the number sent or 30 without one,
\* the response is the empty one, not an error; and reviews older than the
\* window never influence a field of the response.
C24_EmptyWindowIsEmptyResponse ==
  [][TrendsAnswers =>
       \A tr \in {trends'} :
         \A S \in {InWindow(IF tr.days.k = "int" THEN tr.days.v ELSE 30)} :
           /\ tr.status = 200
           /\ S = {} => tr = EmptyTrends(tr.days)
           /\ OnlyFrom(tr, S)]_vars

\* C24, amended: the window is now - days with days the number sent, or 30
\* when none, a non-number or 0 is sent.
C24_EmptyEffectiveWindowIsEmptyResponse ==
  [][TrendsAnswers =>
       \A tr \in {trends'} :
         \A S \in {InWindow(EffectiveDays(tr.days))} :
           /\ tr.status = 200
           /\ S = {} => tr = EmptyTrends(tr.days)
           /\ OnlyFrom(tr, S)]_vars

\* the table is full of reviews older than the seven days asked for, and
\* the response is the empty one
C24_Witness ==
  /\ Len(reviews) = MaxReviews
  /\ trends = EmptyTrends(RawInt(RecentDays))
  /\ InWindow(RecentDays) = {}

\* ------------------------------------------------------------------------
\* GET /api/logs/stats while the stores append
\* ------------------------------------------------------------------------
\* every aggregate field of the response st is the aggregate of the rows X
AggregatesOf(st, X) ==
  /\ st.totalActions = Cardinality(X)
  /\ st.verifiedCount = Cardinality({r \in X : r.key_was_valid = 1})
  /\ st.unverifiedCount = Cardinality({r \in X : r.key_was_valid = 0})
  /\ st.blockedCount = Cardinality({r \in X : r.verdict = "block"})
  /\ st.unverifiedTier1Count =
       Cardinality({r \in X : r.tier = 1 /\ r.key_was_valid = 0})
  /\ st.t1 = Cardinality({r \in X : r.tier = 1})
  /\ st.t2 = Cardinality({r \in X : r.tier = 2})
  /\ st.t3 = Cardinality({r \in X : r.tier = 3})
  /\ st.dailySpend =
       SumAmount({r \in X : ParseDate(r.timestamp) \div TicksPerDay
                               = now \div TicksPerDay})

\* C26: the aggregate fields of one stats response are those of one single
\* state of the event set, also when appends are interleaved with the
\* request.  No row is deleted here and ids grow with every insert, so the
\* states the store has been in are the sets of the rows with id <= k.
C26_StatsFromOneSnapshot ==
  [][(stats.pc = "dailySpend" /\ stats'.pc = "done" /\ stats'.status = 200)
       => \E k \in 0..Cardinality(actions) :
            AggregatesOf(stats', {r \in actions : r.id <= k})]_vars

\* ------------------------------------------------------------------------
\* The config and insights passthroughs: browser, server, disk
\* ------------------------------------------------------------------------
\* the documents an editor saves
ConfigBodies == {"c1", "c2"}

Sent(body) == [pc |-> "sent", body |-> body, status |-> 0, seen |-> "none",
               tries |-> 1]
Answered(r, status, body) ==
  [r EXCEPT !.pc = "answered", !.status = status, !.body = body]
Settled(r, seen) == [r EXCEPT !.pc = "settled", !.seen = seen]

\* fetch() cannot reach the server: the promise of the api function rejects
Unreachable(op) ==
  /\ cfg.req[op].pc = "sent"
  /\ cfg' = [cfg EXCEPT !.req[op] = Settled(cfg.req[op], "rejected")]
  /\ UNCHANGED <<act, perf, rules, goals>>
  /\ UNCHANGED backendVars

\* handleSave of an editor up to the fetch of saveConfig
HandleSave(body) ==
  /\ cfg.config # "null"
  /\ cfg.req["save"].pc \in {"idle", "settled"}
  /\ cfg' = [cfg EXCEPT !.req["save"] = Sent(body)]
  /\ UNCHANGED <<act, perf, rules, goals>>
  /\ UNCHANGED backendVars

\* app.put('/api/config'): a failing mkdirSync or writeFileSync answers 500
\* and leaves the file as it was or with a part of the document
PutConfig ==
  /\ cfg.req["save"].pc = "sent"
  /\ \/ cfg' = [cfg EXCEPT
                  !.disk = cfg.req["save"].body,
                  !.req["save"] = Answered(@, 200, "success")]
     \/ \E left \in {cfg.disk, "corrupt"} :
          cfg' = [cfg EXCEPT
                    !.disk = left,
                    !.req["save"] = Answered(@, 500, "error")]
  /\ UNCHANGED <<act, perf, rules, goals>>
  /\ UNCHANGED backendVars

\* saveConfig returns whatever the status of the response, useConfig.save
\* sets config, handleSave clears hasChanges and shows the toast
SaveSettles ==
  /\ cfg.req["save"].pc = "answered"
  /\ cfg' = [cfg EXCEPT
               !.req["save"] = Settled(@, "resolved"),
               !.config = cfg.req["save"].body,
               !.hasChanges = FALSE,
               !.showToast = TRUE]
  /\ UNCHANGED <<act, perf, rules, goals>>
  /\ UNCHANGED backendVars

\* the Carapace MCP server generates config.json on its first run
GenerateConfig(body) ==
  /\ cfg.disk = "none"
  /\ cfg' = [cfg EXCEPT !.disk = body]
  /\ UNCHANGED <<act, perf, rules, goals>>
  /\ UNCHANGED backendVars

\* an editor changes its draft
EditDraft ==
  /\ cfg.config # "null"
  /\ ~cfg.hasChanges
  /\ cfg' = [cfg EXCEPT !.hasChanges = TRUE, !.showToast = FALSE]
  /\ UNCHANGED <<act, perf, rules, goals>>
  /\ UNCHANGED backendVars

\* useConfig.load up to the fetch of getConfig
LoadConfig ==
  /\ cfg.req["load"].pc \in {"idle", "settled"}
  /\ cfg' = [cfg EXCEPT !.req["load"] = Sent("none"), !.loading = TRUE]
  /\ UNCHANGED <<act, perf, rules, goals>>
  /\ UNCHANGED backendVars

\* app.get('/api/config'): a failing readFileSync or JSON.parse answers 500
GetConfig ==
  /\ cfg.req["load"].pc = "sent"
  /\ IF cfg.disk = "none"
     THEN cfg' = [cfg EXCEPT !.req["load"] = Answered(@, 200, "absent")]
     ELSE \/ /\ cfg.disk # "corrupt"
             /\ cfg' = [cfg EXCEPT
                          !.req["load"] = Answered(@, 200, cfg.disk)]
          \/ cfg' = [cfg EXCEPT !.req["load"] = Answered(@, 500, "error")]
  /\ UNCHANGED <<act, perf, rules, goals>>
  /\ UNCHANGED backendVars

\* getConfig returns res.json() whatever the status; load sets exists to
\* result.exists and config to result.config || null
LoadSettles ==
  /\ cfg.req["load"].pc = "answered"
  /\ LET r == cfg.req["load"]
     IN cfg' = [cfg EXCEPT
                  !.req["load"] = Settled(@, "resolved"),
                  !.exists = IF r.status # 200 THEN "undefined"
                             ELSE IF r.body = "absent" THEN "false"
                             ELSE "true",
                  !.config = IF r.body \in ConfigBodies THEN r.body
                             ELSE "null",
                  !.loading = FALSE]
  /\ UNCHANGED <<act, perf, rules, goals>>
  /\ UNCHANGED backendVars

\* the agent writes insights.md
WriteInsights ==
  /\ ~cfg.insights
  /\ cfg' = [cfg EXCEPT !.insights = TRUE]
  /\ UNCHANGED <<act, perf, rules, goals>>
  /\ UNCHANGED backendVars

\* the load of the Performance page up to the fetch of getInsights
LoadInsights ==
  /\ cfg.req["insights"].pc \in {"idle", "settled"}
  /\ cfg' = [cfg EXCEPT !.req["insights"] = Sent("none")]
  /\ UNCHANGED <<act, perf, rules, goals>>
  /\ UNCHANGED backendVars

\* app.get('/api/insights'): a failing readFileSync answers 500
GetInsights ==
  /\ cfg.req["insights"].pc = "sent"
  /\ IF ~cfg.insights
     THEN cfg' = [cfg EXCEPT
                    !.req["insights"] = Answered(@, 200, "absent")]
     ELSE \/ cfg' = [cfg EXCEPT
                       !.req["insights"] = Answered(@, 200, "content")]
          \/ cfg' = [cfg EXCEPT
                       !.req["insights"] = Answered(@, 500, "error")]
  /\ UNCHANGED <<act, perf, rules, goals>>
  /\ UNCHANGED backendVars

\* getInsights throws unless res.ok
InsightsSettles ==
  /\ cfg.req["insights"].pc = "answered"
  /\ cfg' = [cfg EXCEPT
               !.req["insights"] =
                 Settled(@, IF @.status = 200 THEN "resolved"
                            ELSE "rejected")]
  /\ UNCHANGED <<act, perf, rules, goals>>
  /\ UNCHANGED backendVars

ConfigNext ==
  \/ \E op \in ConfigOps : Unreachable(op)
  \/ \E body \in ConfigBodies : GenerateConfig(body)
  \/ \E body \in ConfigBodies : HandleSave(body)
  \/ PutConfig
  \/ SaveSettles
  \/ EditDraft
  \/ LoadConfig
  \/ GetConfig
  \/ LoadSettles
  \/ WriteInsights
  \/ LoadInsights
  \/ GetInsights
  \/ InsightsSettles

ConfigSpec == LogsInit /\ [][ConfigNext]_vars

\* C25: when the server fails to write or read the config file, or to read
\* the insights file, the caller of the save or load operation observes a
\* failure, not a success, and the request is not sent again by itself.
C25_IOFailureReachesTheCaller ==
  \A op \in ConfigOps :
    /\ (cfg.req[op].pc = "settled" /\ cfg.req[op].status = 500)
         => cfg.req[op].seen = "rejected"
    /\ cfg.req[op].tries <= 1

\* ------------------------------------------------------------------------
\* The Activity Log page
\* ------------------------------------------------------------------------
\* const PAGE_SIZE = 50
ActivityPageSize == 50

\* the verdict filters of the page, and the number of events of the store
\* that match each of them; the store does not change while the page is
\* open, so the response to a query is identified by the query
VerdictFilters == {"all", "pass", "block"}
MatchingEvents(v) ==
  IF v = "all" THEN 60 ELSE IF v = "pass" THEN 55 ELSE 5

\* Math.max(1, Math.ceil(total / size))
TotalPages(total, size) ==
  IF total <= size THEN 1 ELSE (total + size - 1) \div size

\* the query loadData builds from the state of the page
ActQuery(page, v) == [page |-> page, verdict |-> v]

\* the first render: the loadData effect sends the first request and the
\* setPage(1) effect changes nothing
ActMount ==
  /\ ~act.mounted
  /\ act' = [act EXCEPT !.mounted = TRUE, !.loading = TRUE,
                        !.flight = {ActQuery(act.page, act.verdictFilter)}]
  /\ UNCHANGED <<cfg, perf, rules, goals>>
  /\ UNCHANGED backendVars

\* a click on a verdict pill: the render with the new filter runs loadData
\* with the page of that render, and setPage(1); when the page was not 1,
\* the next render runs loadData again, with page 1
ActSetVerdict(v) ==
  /\ act.mounted
  /\ v # act.verdictFilter
  /\ act' = [act EXCEPT
               !.verdictFilter = v,
               !.page = 1,
               !.loading = TRUE,
               !.flight = @ \cup {ActQuery(act.page, v), ActQuery(1, v)}]
  /\ UNCHANGED <<cfg, perf, rules, goals>>
  /\ UNCHANGED backendVars

\* a click on Next or Previous (to = page + 1 or page - 1), enabled by the
\* total on display
ActSetPage(to) ==
  /\ act.mounted
  /\ to # act.page
  /\ \/ to = act.page - 1 /\ act.page > 1
     \/ /\ to = act.page + 1
        /\ act.page < TotalPages(act.total, ActivityPageSize)
  /\ act' = [act EXCEPT
               !.page = to,
               !.loading = TRUE,
               !.flight = @ \cup {ActQuery(to, act.verdictFilter)}]
  /\ UNCHANGED <<cfg, perf, rules, goals>>
  /\ UNCHANGED backendVars

\* the response to a request in flight arrives: loadData continues with
\* setActions, setTotal and setLoading(false)
ActReceive(q) ==
  /\ q \in act.flight
  /\ act' = [act EXCEPT
               !.flight = @ \ {q},
               !.shown = q,
               !.total = MatchingEvents(q.verdict),
               !.loading = FALSE]
  /\ UNCHANGED <<cfg, perf, rules, goals>>
  /\ UNCHANGED backendVars

ActivityNext ==
  \/ ActMount
  \/ \E v \in VerdictFilters : ActSetVerdict(v)
  \/ \E to \in 1..TotalPages(MatchingEvents("all"), ActivityPageSize) :
       ActSetPage(to)
  \/ \E q \in act.flight : ActReceive(q)

ActivitySpec == LogsInit /\ [][ActivityNext]_vars

\* C27: once every log request in flight has completed, the rows and the
\* total on display are the response to the query built from the current
\* filters and the current page, in whatever order the responses arrived.
C27_NewestQueryIsDisplayed ==
  (act.mounted /\ act.flight = {}) =>
    /\ act.shown = ActQuery(act.page, act.verdictFilter)
    /\ act.total = MatchingEvents(act.verdictFilter)

\* ------------------------------------------------------------------------
\* The Performance page
\* ------------------------------------------------------------------------
\* const PAGE_SIZE = 20
PerfPageSize == 20

\* the number of reviews of the store while the page is open: five pages
StoredReviews == 90

\* the position, newest first, of the review the page shows as "Latest
\* Review": reviews[0] of the rows on display, which are those of page shown
LatestShown(shown) == (shown - 1) * PerfPageSize + 1

\* the first render: the initial load requests the first page (with the
\* trends and the insights); the paginated effect returns at once
PerfMount ==
  /\ ~perf.mounted
  /\ perf' = [perf EXCEPT !.mounted = TRUE, !.loading = TRUE,
                          !.flight = {perf.page}]
  /\ UNCHANGED <<cfg, act, rules, goals>>
  /\ UNCHANGED backendVars

\* a click on Next or Previous, rendered once the initial load has brought
\* reviews; the paginated effect requests the new page unless it is page 1
PerfSetPage(to) ==
  /\ perf.mounted
  /\ ~perf.loading
  /\ perf.shown # 0
  /\ to # perf.page
  /\ \/ to = perf.page - 1 /\ perf.page > 1
     \/ /\ to = perf.page + 1
        /\ perf.page < TotalPages(perf.total, PerfPageSize)
  /\ perf' = [perf EXCEPT
                !.page = to,
                !.flight = IF to = 1 THEN @ ELSE @ \cup {to}]
  /\ UNCHANGED <<cfg, act, rules, goals>>
  /\ UNCHANGED backendVars

\* the response to a request for a page of reviews arrives: setReviews and
\* setTotal, and setLoading(false) at the end of the initial load
PerfReceive(p) ==
  /\ p \in perf.flight
  /\ perf' = [perf EXCEPT
                !.flight = @ \ {p},
                !.shown = p,
                !.total = StoredReviews,
                !.loading = IF p = 1 THEN FALSE ELSE @]
  /\ UNCHANGED <<cfg, act, rules, goals>>
  /\ UNCHANGED backendVars

PerformanceNext ==
  \/ PerfMount
  \/ \E to \in 1..TotalPages(StoredReviews, PerfPageSize) : PerfSetPage(to)
  \/ \E p \in perf.flight : PerfReceive(p)

PerformanceSpec == LogsInit /\ [][PerformanceNext]_vars

\* C28: once the loads have completed, the rows on display are those of
\* the selected page, and on page 1 the "Latest Review" card shows the most
\* recent review, also after a visit to another page.
C28_SelectedPageIsDisplayed ==
  (perf.mounted /\ perf.flight = {} /\ ~perf.loading) =>
    /\ perf.shown = perf.page
    /\ perf.page = 1 => LatestShown(perf.shown) = 1

\* ------------------------------------------------------------------------
\* The Security Rules page: the spending limits
\* ------------------------------------------------------------------------
MaxAmount == 1
\* the amounts a limit can hold; min={0} of the inputs stops the spinner
\* at 0, not the keyboard
Amounts == -1..MaxAmount

LimitFields == {"perAction", "daily", "warnAbove"}

\* the text of an input: empty, the decimal text of a number, or a text
\* that Number() does not read as a number
EmptyText == [k |-> "empty", v |-> 0]
NaNText == [k |-> "nan", v |-> 0]
Texts == {EmptyText, NaNText} \cup {Shown(n) : n \in Amounts}

\* display === '' ? 0 : Number(display)
NumberOf(text) ==
  IF text.k = "empty" THEN [k |-> "number", v |-> 0]
  ELSE IF text.k = "number" THEN [k |-> "number", v |-> text.v]
  ELSE [k |-> "nan", v |-> 0]

\* Math.min of the first argument alone
MathMinFirst(a, b) == a

\* Math.min(a, b)
MathMin(a, b) == IF a <= b THEN a ELSE b

\* the function each onBlur handler passes to update
CommitLimit(field, val, limits) ==
  IF field = "perAction" THEN
    LET pa == MathMin(val, limits.daily)
    IN  [limits EXCEPT !.perAction = pa,
                       !.warnAbove = MathMin(limits.warnAbove, pa)]
  ELSE IF field = "daily" THEN
    LET pa == MathMin(limits.perAction, val)
    IN  [limits EXCEPT !.daily = val,
                       !.perAction = pa,
                       !.warnAbove = MathMin(limits.warnAbove, pa)]
  ELSE [limits EXCEPT !.warnAbove = MathMin(val, limits.perAction)]

\* the effect on the three limits of the draft: String(...) of each
DisplayOf(limits) == [f \in LimitFields |-> Shown(limits[f])]

\* onChange of an input: the text typed is displayed, the draft is not
\* touched
RulesChange(field, text) ==
  /\ text # rules.display[field]
  /\ rules' = [rules EXCEPT !.display[field] = text, !.hasChanges = TRUE]
  /\ UNCHANGED <<cfg, act, perf, goals>>
  /\ UNCHANGED backendVars

\* onBlur of an input: a text that is not a number puts the value of the
\* draft back on display; a number goes through update, and the display
\* effect runs when a limit of the draft has changed
RulesBlur(field) ==
  /\ \E val \in {NumberOf(rules.display[field])} :
       IF val.k = "nan"
       THEN rules' = [rules EXCEPT
                        !.display[field] = Shown(rules.draft[field])]
       ELSE \E next \in {CommitLimit(field, val.v, rules.draft)} :
              rules' = [rules EXCEPT
                          !.draft = next,
                          !.hasChanges = TRUE,
                          !.display = IF next = rules.draft THEN @
                                      ELSE DisplayOf(next)]
  /\ UNCHANGED <<cfg, act, perf, goals>>
  /\ UNCHANGED backendVars

\* handleSave: the draft is passed to save
RulesSave ==
  /\ rules' = [rules EXCEPT !.saved = [k |-> "config", v |-> rules.draft],
                            !.hasChanges = FALSE,
                            !.showToast = TRUE]
  /\ UNCHANGED <<cfg, act, perf, goals>>
  /\ UNCHANGED backendVars

\* onClose of the toast
RulesToastDone ==
  /\ rules.showToast
  /\ rules' = [rules EXCEPT !.showToast = FALSE]
  /\ UNCHANGED <<cfg, act, perf, goals>>
  /\ UNCHANGED backendVars

RulesNext ==
  \/ \E f \in LimitFields, t \in Texts : RulesChange(f, t)
  \/ \E f \in LimitFields : RulesBlur(f)
  \/ RulesSave
  \/ RulesToastDone

Ordered(limits) ==
  limits.warnAbove <= limits.perAction /\ limits.perAction <= limits.daily

\* the page opens on any draft whose limits are in order
RulesInit ==
  /\ StoreInit /\ ReaderInit /\ plan = "index" /\ now = NowStart + 1
  /\ PageInit
  /\ \E l \in [LimitFields -> Amounts] : Ordered(l) /\ rules = RulesOf(l)

RulesSpec == RulesInit /\ [][RulesNext]_vars

\* C29: from a draft with warnAbove <= perAction <= daily, whatever is
\* typed into the three fields and committed by leaving them, the draft,
\* and so every draft passed to save, has warnAbove <= perAction <= daily.
C29_LimitsStayOrdered ==
  /\ Ordered(rules.draft)
  /\ rules.saved.k = "config" => Ordered(rules.saved.v)

\* a draft was saved, then the daily limit was lowered below the
\* per-action limit and the warn-above limit, which came down with it
C29_Witness ==
  /\ rules.saved.k = "config"
  /\ rules.draft.daily < rules.saved.v.warnAbove
  /\ rules.draft.perAction = rules.draft.daily
  /\ rules.draft.warnAbove = rules.draft.daily

\* ------------------------------------------------------------------------
\* The Goals page: the list of priorities
\* ------------------------------------------------------------------------
MaxPriorities == 2

\* the texts typed into a priority; a new priority has the empty text
PriorityTexts == {"", "a", "b"}

\* what arr.splice(from, 1)[0] is when from is not an index of arr
UndefinedItem == [rank |-> 0, text |-> "undefined"]

\* final.anchor.priorities.map((p, i) => ({...p, rank: i + 1}))
Renumber(ps) == [i \in DOMAIN ps |-> [ps[i] EXCEPT !.rank = i]]

\* arr.splice(i, 1), indexes from 0: nothing is removed past the end
SpliceOut(arr, i) ==
  IF i < Len(arr)
  THEN SubSeq(arr, 1, i) \o SubSeq(arr, i + 2, Len(arr))
  ELSE arr

\* arr.splice(to, 0, item): a start past the end is the end
SpliceIn(arr, to, item) ==
  LET at == MathMin(to, Len(arr))
  IN  SubSeq(arr, 1, at) \o <<item>> \o SubSeq(arr, at + 1, Len(arr))

\* reorder(arr, from, to)
Reorder(arr, from, to) ==
  LET item == IF from < Len(arr) THEN arr[from + 1] ELSE UndefinedItem
  IN  SpliceIn(SpliceOut(arr, from), to, item)

\* the pointer is free: no row of the list is being dragged
NoDrag == goals.dragIndex = JsNull

\* update(fn): the draft is replaced and hasChanges is set; the render of
\* a list with an undefined entry throws at p.text and the page is gone
Updated(ps) ==
  [goals EXCEPT !.priorities = ps,
                !.hasChanges = TRUE,
                !.pc = IF \E i \in DOMAIN ps : ps[i] = UndefinedItem
                       THEN "crashed" ELSE @]

\* Add Priority
AddPriority ==
  /\ goals.pc # "crashed" /\ NoDrag
  /\ Len(goals.priorities) < MaxPriorities
  /\ goals' = Updated(Append(goals.priorities,
                             [rank |-> Len(goals.priorities) + 1,
                              text |-> ""]))
  /\ UNCHANGED <<cfg, act, perf, rules>>
  /\ UNCHANGED backendVars

\* onRemove(i)
RemovePriority(i) ==
  /\ goals.pc # "crashed" /\ NoDrag
  /\ i < Len(goals.priorities)
  /\ goals' = Updated(SpliceOut(goals.priorities, i))
  /\ UNCHANGED <<cfg, act, perf, rules>>
  /\ UNCHANGED backendVars

\* onUpdate(i, val)
EditPriority(i, val) ==
  /\ goals.pc # "crashed" /\ NoDrag
  /\ i < Len(goals.priorities)
  /\ val # goals.priorities[i + 1].text
  /\ goals' = Updated([goals.priorities EXCEPT ![i + 1].text = val])
  /\ UNCHANGED <<cfg, act, perf, rules>>
  /\ UNCHANGED backendVars

\* handleDragStart(i)
DragStart(i) ==
  /\ goals.pc # "crashed" /\ NoDrag
  /\ i < Len(goals.priorities)
  /\ goals' = [goals EXCEPT !.dragIndex = Shown(i)]
  /\ UNCHANGED <<cfg, act, perf, rules>>
  /\ UNCHANGED backendVars

\* handleDrop(i) on a row of the list
Drop(i) ==
  /\ goals.pc # "crashed" /\ ~NoDrag
  /\ i < Len(goals.priorities)
  /\ goals' = [(IF goals.dragIndex.v # i
                THEN Updated(Reorder(goals.priorities, goals.dragIndex.v, i))
                ELSE goals)
               EXCEPT !.dragIndex = JsNull]
  /\ UNCHANGED <<cfg, act, perf, rules>>
  /\ UNCHANGED backendVars

\* onDragEnd of the row that is dragged, when the drag ends elsewhere; a
\* row that is no longer rendered receives no event
DragEnd ==
  /\ goals.pc # "crashed" /\ ~NoDrag
  /\ goals.dragIndex.v < Len(goals.priorities)
  /\ goals' = [goals EXCEPT !.dragIndex = JsNull]
  /\ UNCHANGED <<cfg, act, perf, rules>>
  /\ UNCHANGED backendVars

\* handleSave up to its await: the renumbered copy is passed to save
GoalsSave ==
  /\ goals.pc = "idle" /\ NoDrag
  /\ goals' = [goals EXCEPT
                 !.pc = "saving",
                 !.saved = [k |-> "config", v |-> Renumber(goals.priorities)]]
  /\ UNCHANGED <<cfg, act, perf, rules>>
  /\ UNCHANGED backendVars

\* the request answers: useConfig.save sets config to the document sent,
\* the draft effect replaces the draft by a copy of it, and handleSave
\* continues
GoalsSaved ==
  /\ goals.pc = "saving"
  /\ goals' = [goals EXCEPT !.pc = "idle",
                            !.priorities = goals.saved.v,
                            !.hasChanges = FALSE,
                            !.showToast = TRUE]
  /\ UNCHANGED <<cfg, act, perf, rules>>
  /\ UNCHANGED backendVars

\* onClose of the toast
GoalsToastDone ==
  /\ goals.pc # "crashed" /\ NoDrag
  /\ goals.showToast
  /\ goals' = [goals EXCEPT !.showToast = FALSE]
  /\ UNCHANGED <<cfg, act, perf, rules>>
  /\ UNCHANGED backendVars

GoalsNext ==
  \/ AddPriority
  \/ \E i \in 0..MaxPriorities - 1 : RemovePriority(i)
  \/ \E i \in 0..MaxPriorities - 1, t \in PriorityTexts : EditPriority(i, t)
  \/ \E i \in 0..MaxPriorities - 1 : DragStart(i)
  \/ DragEnd
  \/ \E i \in 0..MaxPriorities - 1 : Drop(i)
  \/ GoalsSave
  \/ GoalsSaved
  \/ GoalsToastDone

GoalsSpec == LogsInit /\ [][GoalsNext]_vars

\* the number of entries of ps with text t
TextCount(ps, t) == Cardinality({i \in DOMAIN ps : ps[i].text = t})

\* the configuration passed to save has ranks 1..n in the order displayed
\* when Save was clicked
SavedRanksInOrder ==
  goals.saved.k = "config" =>
    \A i \in DOMAIN goals.saved.v : goals.saved.v[i].rank = i

\* a step that ends a drag leaves the number of entries and the number of
\* entries of each text as they were
ReorderKeepsEntries ==
  (goals.dragIndex # JsNull /\ goals'.dragIndex = JsNull) =>
    /\ Len(goals'.priorities) = Len(goals.priorities)
    /\ \A t \in PriorityTexts \cup {UndefinedItem.text} :
         TextCount(goals'.priorities, t) = TextCount(goals.priorities, t)

\* C30: after any adds, removes, edits and drag-reorders of the
\* priorities, the configuration passed to save has ranks exactly 1..n in
\* the displayed order, and a reorder changes neither the number of
\* entries nor the multiset of their texts.
C30_RanksAndReorder == []SavedRanksInOrder /\ [][ReorderKeepsEntries]_vars

====
